---- MODULE Spec2Model ----
(***************************************************************************)
(* Model of @rhinolabs/fastify-file-routes: the path translator, the       *)
(* directory scanner, the route info extractor, the handler extraction,    *)
(* the route registrar and the plugin entry point.                         *)
(*                                                                         *)
(* A JavaScript string is a sequence of one-character strings, so that     *)
(* the regular expressions, split/join and path.posix.join of the source   *)
(* are computed character by character.                                    *)
(***************************************************************************)
EXTENDS Integers, Sequences, FiniteSets, TLC

VARIABLES
    \* ---- path translation (extractRouteInfo, transformPathToRoute, prefix)
    dirs,           \* directories between the routes root and the file
    filename,       \* the file's name, with its extension
    fileFragment,   \* transformPathToRoute: routeName after handleDynamicSegments
    mapped,         \* transformPathToRoute: the .map(...) result, before the second filter
    routePath,      \* RouteInfo.routePath
    prefix,         \* options.prefix as applied (<<>> while none was applied)
    tpc             \* position of the translation: "pick" | "file" | "extracted" | "prefixed"

tvars == <<dirs, filename, fileFragment, mapped, routePath, prefix, tpc>>

VARIABLES
    \* ---- directory scan (scanDirectories, scanRecursive, prioritizeJsFiles)
    rootState,      \* the routes root: "ok" | "missing" | "unreadable"
    fs,             \* the files below the routes root, each a sequence of entry names
    scanOptions,    \* ScanOptions: [ignore, extensions]
    stack,          \* the scanRecursive calls in progress: [dir, pending entries]
    allFiles,       \* the paths scanRecursive has pushed so far, in order
    routeFiles,     \* what scanDirectories returned
    spc             \* "setup" | "scan" | "done" | "threw"

svars == <<rootState, fs, scanOptions, stack, allFiles, routeFiles, spc>>

VARIABLES
    \* ---- handler extraction (extractMethodHandlers)
    routeModule,    \* the exports of a loaded module: [named, default]
    handlers,       \* the Map extractMethodHandlers returns, in insertion order
    hpc             \* "build" | "extracted"

hvars == <<routeModule, handlers, hpc>>

VARIABLES
    \* ---- route registration (registerRoutes)
    routes,           \* the RouteInfo list registerRoutes was given
    routesToRegister, \* the descriptors kept, one per route path
    ri,               \* index in routesToRegister of the descriptor in progress
    pendingHandlers,  \* entries of methodHandlers not yet iterated
    loadCalls,        \* the file paths loadRouteModule was called with, in order
    server,           \* the route options fastify.route accepted, in order
    logs,             \* what was written to fastify.log, in order
    globalHooks,      \* the globalHooks object of the caller, as it is now
    callerHooks,      \* the globalHooks object as the caller passed it
    module,           \* the module of the descriptor in progress, as it is now
    rpc               \* "setup" | "load" | "routes" | "done"

rvars == <<routes, routesToRegister, ri, pendingHandlers, loadCalls, server, logs,
          globalHooks, callerHooks, module, rpc>>

VARIABLES
    \* ---- the plugin call (pluginImpl)
    pluginOptions,    \* FileRoutesOptions: [routesDir, prefix]
    ppc               \* "setup" | "called" | "scan" | "register" | "done" | "threw"

pvars == <<pluginOptions, ppc>>

VARIABLES
    \* ---- one call of loadRouteModule
    loadPath,         \* the filePath argument
    fileExists,       \* whether the file at filePath exists
    siblingExists,    \* whether the .js file beside a .ts filePath exists now
    existsCalls,      \* the existsSync calls made: [file, found]
    actualPath,       \* actualFilePath
    imports,          \* the import() calls made: [file, ok]
    loadResult,       \* <<>> while the call runs, then <<what the promise settled to>>
    lpc               \* "start" | "import" | "fallback" | "returned" | "threw"

lvars == <<loadPath, fileExists, siblingExists, existsCalls, actualPath, imports,
          loadResult, lpc>>

VARIABLES
    \* ---- the performance monitor plugin and the requests it sees
    monitorConfig,    \* config: [enable, exclude, slowThreshold, verySlowThreshold]
    installedHooks,   \* the names of the hooks added with fastify.addHook
    totalRequests,    \* totalRequests
    monitoredRequests,\* monitoredRequests
    inflight,         \* the requests that passed onRequest: [url, shouldExclude]
    console,          \* the lines written with console.log by onResponse, in order
    mpc               \* "setup" | "registered"

mvars == <<monitorConfig, installedHooks, totalRequests, monitoredRequests, inflight,
          console, mpc>>

vars == <<tvars, svars, hvars, rvars, pvars, lvars, mvars>>

\* the variables each part leaves alone
exceptT == <<svars, hvars, rvars, pvars, lvars, mvars>>
exceptS == <<tvars, hvars, rvars, pvars, lvars, mvars>>
exceptH == <<tvars, svars, rvars, pvars, lvars, mvars>>
exceptR == <<tvars, svars, hvars, pvars, lvars, mvars>>
exceptP == <<tvars, hvars, lvars, mvars>>
exceptL == <<tvars, svars, hvars, rvars, pvars, mvars>>
exceptM == <<tvars, svars, hvars, rvars, pvars, lvars>>

-----------------------------------------------------------------------------
(* Strings *)

S_index == <<"i","n","d","e","x">>
S_js    == <<".","j","s">>
S_ts    == <<".","t","s">>
S_cjs   == <<".","c","j","s">>
S_mjs   == <<".","m","j","s">>
S_dts   == <<".","d",".","t","s">>
S_dot   == <<".">>
S_slash == <<"/">>
SEP     == "/"

startsWith(s, p) == Len(s) >= Len(p) /\ SubSeq(s, 1, Len(p)) = p
endsWith(s, p)   == Len(s) >= Len(p) /\ SubSeq(s, Len(s) - Len(p) + 1, Len(s)) = p

\* s without its last n characters
dropLast(s, n) == SubSeq(s, 1, Len(s) - n)

\* String.prototype.split(sep) for a one-character separator
RECURSIVE splitRec(_, _, _, _, _)
splitRec(s, sep, i, cur, acc) ==
    IF i > Len(s) THEN Append(acc, cur)
    ELSE IF s[i] = sep THEN splitRec(s, sep, i + 1, <<>>, Append(acc, cur))
    ELSE splitRec(s, sep, i + 1, Append(cur, s[i]), acc)

split(s, sep) == splitRec(s, sep, 1, <<>>, <<>>)

\* Array.prototype.join(sep)
RECURSIVE join(_, _)
join(segs, sep) ==
    IF segs = <<>> THEN <<>>
    ELSE IF Len(segs) = 1 THEN segs[1]
    ELSE segs[1] \o <<sep>> \o join(Tail(segs), sep)

\* Array.prototype.filter(Boolean) on an array of strings
filterBoolean(segs) == SelectSeq(segs, LAMBDA x : x # <<>>)

\* the first index >= from at which c occurs in s, 0 when there is none
RECURSIVE indexOfFrom(_, _, _)
indexOfFrom(s, c, from) ==
    IF from > Len(s) THEN 0
    ELSE IF s[from] = c THEN from
    ELSE indexOfFrom(s, c, from + 1)

hasChar(s, c) == indexOfFrom(s, c, 1) # 0

\* String.prototype.includes for a literal
includes(s, p) == \E i \in 1..(Len(s) - Len(p) + 1) : SubSeq(s, i, i + Len(p) - 1) = p

-----------------------------------------------------------------------------
(* node:path (POSIX) *)

\* normalizeString: resolves "." and ".." segments, drops empty ones
RECURSIVE normalizeSegs(_, _, _)
normalizeSegs(segs, allowAboveRoot, res) ==
    IF segs = <<>> THEN res
    ELSE LET s == Head(segs) IN
         IF s = <<>> \/ s = S_dot THEN normalizeSegs(Tail(segs), allowAboveRoot, res)
         ELSE IF s = <<".", ".">> THEN
              IF res # <<>> /\ res[Len(res)] # <<".", ".">>
                  THEN normalizeSegs(Tail(segs), allowAboveRoot, dropLast(res, 1))
              ELSE IF allowAboveRoot
                  THEN normalizeSegs(Tail(segs), allowAboveRoot, Append(res, s))
              ELSE normalizeSegs(Tail(segs), allowAboveRoot, res)
         ELSE normalizeSegs(Tail(segs), allowAboveRoot, Append(res, s))

\* path.posix.normalize
posixNormalize(p) ==
    IF p = <<>> THEN S_dot
    ELSE LET isAbsolute == p[1] = SEP
             trailingSeparator == p[Len(p)] = SEP
             body == join(normalizeSegs(split(p, SEP), ~isAbsolute, <<>>), SEP)
         IN  IF body = <<>>
                 THEN (IF isAbsolute THEN S_slash
                       ELSE IF trailingSeparator THEN <<".", "/">> ELSE S_dot)
             ELSE LET withTrail == IF trailingSeparator THEN body \o S_slash ELSE body
                  IN  IF isAbsolute THEN S_slash \o withTrail ELSE withTrail

\* path.posix.join(a, b)
posixJoin(a, b) ==
    IF a = <<>> /\ b = <<>> THEN S_dot
    ELSE IF a = <<>> THEN posixNormalize(b)
    ELSE IF b = <<>> THEN posixNormalize(a)
    ELSE posixNormalize(a \o S_slash \o b)

\* path.dirname of a relative path given as its segments (directories, then the file)
dirnameOf(ds) == IF ds = <<>> THEN S_dot ELSE join(ds, SEP)

-----------------------------------------------------------------------------
(* Path translator *)

\* filename.replace(/\.(js|ts|cjs|mjs)$/, "")
stripExtension(name) ==
    IF endsWith(name, S_cjs) THEN dropLast(name, 4)
    ELSE IF endsWith(name, S_mjs) THEN dropLast(name, 4)
    ELSE IF endsWith(name, S_js) THEN dropLast(name, 3)
    ELSE IF endsWith(name, S_ts) THEN dropLast(name, 3)
    ELSE name

\* /^\[\[\.\.\.([^\]]+)\]\]$/.test(segment)
isOptionalCatchAll(segment) ==
    /\ Len(segment) >= 8
    /\ startsWith(segment, <<"[", "[", ".", ".", ".">>)
    /\ endsWith(segment, <<"]", "]">>)
    /\ ~hasChar(SubSeq(segment, 6, Len(segment) - 2), "]")

\* /^\[\.\.\.([^\]]+)\]$/.test(segment)
isCatchAll(segment) ==
    /\ Len(segment) >= 6
    /\ startsWith(segment, <<"[", ".", ".", ".">>)
    /\ endsWith(segment, <<"]">>)
    /\ ~hasChar(SubSeq(segment, 5, Len(segment) - 1), "]")

\* mutant: the replacement is not global, only the first capture is replaced
replaceCaptures_FirstOnly(s, i) ==
    LET o == indexOfFrom(s, "[", i)
        k == IF o = 0 THEN 0 ELSE indexOfFrom(s, "]", o + 1)
    IN  IF o = 0 \/ k < o + 2 THEN SubSeq(s, i, Len(s))
        ELSE SubSeq(s, i, o - 1) \o <<":">> \o SubSeq(s, o + 1, k - 1)
                \o SubSeq(s, k + 1, Len(s))

\* segment.replace(/\[([^\]]+)\]/g, ":$1"), scanning from index i
RECURSIVE replaceCaptures(_, _)
replaceCaptures(s, i) ==
    IF i > Len(s) THEN <<>>
    ELSE IF s[i] = "[" THEN
         LET k == indexOfFrom(s, "]", i + 1) IN
         IF k >= i + 2
             THEN <<":">> \o SubSeq(s, i + 1, k - 1) \o replaceCaptures(s, k + 1)
         ELSE <<s[i]>> \o replaceCaptures(s, i + 1)
    ELSE <<s[i]>> \o replaceCaptures(s, i + 1)

\* mutant: the single-capture rule tried first
handleDynamicSegments_CaptureFirst(segment) ==
    IF hasChar(segment, "[") THEN replaceCaptures(segment, 1)
    ELSE segment

handleDynamicSegments(segment) ==
    IF isOptionalCatchAll(segment)
        THEN <<":">> \o SubSeq(segment, 6, Len(segment) - 2) \o <<"?", "*">>
    ELSE IF isCatchAll(segment) THEN <<"*">>
    ELSE replaceCaptures(segment, 1)

\* /^\([^)]+\)$/.test(segment)
isGroupSegment(segment) ==
    /\ Len(segment) >= 3
    /\ segment[1] = "("
    /\ segment[Len(segment)] = ")"
    /\ ~hasChar(SubSeq(segment, 2, Len(segment) - 1), ")")

\* filename without extension, "index" emptied, dynamic segments handled
routeNameOf(name) ==
    LET stripped == stripExtension(name)
    IN  handleDynamicSegments(IF stripped = S_index THEN <<>> ELSE stripped)

\* dirPath.split(path.sep).filter(Boolean).map(...): before the second filter
mapSegments(dirPath) ==
    LET segs == filterBoolean(split(dirPath, SEP))
    IN  [i \in 1..Len(segs) |->
            IF isGroupSegment(segs[i]) THEN <<>> ELSE handleDynamicSegments(segs[i])]

transformPathToRoute(dirPath, name) ==
    LET routeName == routeNameOf(name)
        kept == filterBoolean(mapSegments(dirPath))
        routeSegments == IF routeName # <<>> THEN Append(kept, routeName) ELSE kept
        path == S_slash \o join(routeSegments, SEP)
    IN  IF path = <<"/", "/">> THEN S_slash ELSE path

\* extractRouteInfo for one file, default translation
extractRoute(ds, name) == transformPathToRoute(dirnameOf(ds), name)

-----------------------------------------------------------------------------
(* Inputs of the path translation *)

MaxDepth   == 2      \* directories between the routes root and a file
MaxNameLen == 1      \* characters of a capture or group name

NameChars == {"a", "b"}

\* every non-empty string over NameChars of at most n characters
RECURSIVE StringsUpTo(_)
StringsUpTo(n) ==
    IF n = 0 THEN {<<>>}
    ELSE LET shorter == StringsUpTo(n - 1)
         IN  shorter \cup {Append(s, c) : s \in shorter, c \in NameChars}

Names == StringsUpTo(MaxNameLen) \ {<<>>}

Capture(n)          == <<"[">> \o n \o <<"]">>
CatchAll(n)         == <<"[", ".", ".", ".">> \o n \o <<"]">>
OptionalCatchAll(n) == <<"[", "[", ".", ".", ".">> \o n \o <<"]", "]">>
Group(n)            == <<"(">> \o n \o <<")">>

\* base names of files: literal, the three capture forms, a parenthesised name,
\* captures mixed with literal text, and index
FileBases ==
    {S_index}
    \cup UNION {{n, Capture(n), CatchAll(n), OptionalCatchAll(n), Group(n),
                 <<"p", "-">> \o Capture(n)} : n \in Names}
    \cup {Capture(n) \o <<"-">> \o Capture(m) : n, m \in Names}

DefaultExtensions == {S_js, S_cjs, S_mjs, S_ts}

DirSegments ==
    {<<"u">>, Group(<<"g">>), Capture(<<"i", "d">>), CatchAll(<<"s">>),
     OptionalCatchAll(<<"s">>)}

S_api == <<"/", "a", "p", "i">>

\* options.prefix; <<>> stands for no prefix (a falsy value)
Prefixes == {<<>>, S_api, S_api \o <<"/", "v", "1">>, S_slash}

-----------------------------------------------------------------------------
(* Translation of one file: extractRouteInfo, then the prefix of pluginImpl *)

TInit ==
    /\ dirs = <<>>
    /\ filename = <<>>
    /\ fileFragment = <<>>
    /\ mapped = <<>>
    /\ routePath = <<>>
    /\ prefix = <<>>
    /\ tpc = "pick"

\* the file lies one directory deeper
TAddDir(seg) ==
    /\ tpc = "pick"
    /\ Len(dirs) < MaxDepth
    /\ dirs' = Append(dirs, seg)
    /\ UNCHANGED <<filename, fileFragment, mapped, routePath, prefix, tpc>>

TChooseFile(base, ext) ==
    /\ tpc = "pick"
    /\ filename' = base \o ext
    /\ tpc' = "file"
    /\ UNCHANGED <<dirs, fileFragment, mapped, routePath, prefix>>

\* extractRouteInfo on the file, without a pathTransform
TExtract ==
    /\ tpc = "file"
    /\ fileFragment' = routeNameOf(filename)
    /\ mapped' = mapSegments(dirnameOf(dirs))
    /\ routePath' = extractRoute(dirs, filename)
    /\ tpc' = "extracted"
    /\ UNCHANGED <<dirs, filename, prefix>>

\* pluginImpl: if (options.prefix) route.routePath = path.posix.join(prefix, routePath)
applyPrefix(p, rp) == IF p # <<>> THEN posixJoin(p, rp) ELSE rp

TApplyPrefix(p) ==
    /\ tpc = "extracted"
    /\ prefix' = p
    /\ routePath' = applyPrefix(p, routePath)
    /\ tpc' = "prefixed"
    /\ UNCHANGED <<dirs, filename, fileFragment, mapped>>

TNext ==
    \/ \E seg \in DirSegments : TAddDir(seg) /\ UNCHANGED exceptT
    \/ \E base \in FileBases, ext \in DefaultExtensions :
            TChooseFile(base, ext) /\ UNCHANGED exceptT
    \/ TExtract /\ UNCHANGED exceptT
    \/ \E p \in Prefixes : TApplyPrefix(p) /\ UNCHANGED exceptT

\* no scan in progress
SIdle ==
    /\ rootState = "ok"
    /\ fs = {}
    /\ scanOptions = [ignore |-> {}, extensions |-> {}]
    /\ stack = <<>>
    /\ allFiles = <<>>
    /\ routeFiles = <<>>
    /\ spc = "idle"

\* typeof x === "undefined"
Undefined == [t |-> "undefined"]

\* no handler extraction in progress
HIdle ==
    /\ routeModule = [named |-> <<>>, default |-> Undefined]
    /\ handlers = <<>>
    /\ hpc = "idle"

\* An optional value is <<>> when absent and <<v>> when present.
\* A schema object holds tags (an array of tag names), body and response.
EmptySchema == [tags |-> <<>>, body |-> <<>>, response |-> <<>>]

\* A Partial<RouteOptions>: the hook functions, the schema object, and the keys
\* method, url and handler, which the type admits as well.
EmptyHooks ==
    [onRequest |-> <<>>, preHandler |-> <<>>, schema |-> <<>>,
     method |-> <<>>, url |-> <<>>, handler |-> <<>>]

\* The schema export of a module: one optional schema object per key. RouteSchema
\* is indexed by any string: the keys are the method tokens and "delete".
NoSchemas ==
    [get |-> <<>>, post |-> <<>>, put |-> <<>>, del |-> <<>>, delete |-> <<>>,
     patch |-> <<>>, head |-> <<>>, options |-> <<>>]

\* a module without exports
NoModule == [named |-> <<>>, default |-> Undefined, hooks |-> EmptyHooks, schema |-> NoSchemas]

\* no registration in progress
RIdle ==
    /\ routes = <<>>
    /\ routesToRegister = <<>>
    /\ ri = 0
    /\ pendingHandlers = <<>>
    /\ loadCalls = <<>>
    /\ server = <<>>
    /\ logs = <<>>
    /\ globalHooks = EmptyHooks
    /\ callerHooks = EmptyHooks
    /\ module = NoModule
    /\ rpc = "idle"

\* no plugin call in progress
PIdle ==
    /\ pluginOptions = [routesDir |-> <<>>, prefix |-> <<>>, globalHooks |-> EmptyHooks]
    /\ ppc = "idle"

\* no loadRouteModule call in progress
LIdle ==
    /\ loadPath = <<>>
    /\ fileExists = FALSE
    /\ siblingExists = FALSE
    /\ existsCalls = <<>>
    /\ actualPath = <<>>
    /\ imports = <<>>
    /\ loadResult = <<>>
    /\ lpc = "idle"

\* no performance monitor registered
MIdle ==
    /\ monitorConfig = [enable |-> TRUE, exclude |-> {}, slowThreshold |-> 0,
                        verySlowThreshold |-> 0]
    /\ installedHooks = {}
    /\ totalRequests = 0
    /\ monitoredRequests = 0
    /\ inflight = {}
    /\ console = <<>>
    /\ mpc = "idle"

TranslateInit == TInit /\ SIdle /\ HIdle /\ RIdle /\ PIdle /\ LIdle /\ MIdle

SpecTranslate == TranslateInit /\ [][TNext]_vars

-----------------------------------------------------------------------------
(* Properties of the path translation, checked under SpecTranslate *)

\* the fragments a directory path contributes: none for a group directory,
\* the translated segment otherwise
DirFragments(ds) ==
    filterBoolean([i \in 1..Len(ds) |->
        IF isGroupSegment(ds[i]) THEN <<>> ELSE handleDynamicSegments(ds[i])])

\* the route path of directory ds itself
DirectoryRoute(ds) ==
    IF ds = <<>> THEN S_slash ELSE S_slash \o join(DirFragments(ds), SEP)

\* ds without its i-th directory
RemoveAt(ds, i) == SubSeq(ds, 1, i - 1) \o SubSeq(ds, i + 1, Len(ds))

IsIndexFile == stripExtension(filename) = S_index

\* C1: for every directory d (the root included) and accepted extension, the
\* route path derived for d/index.ext is the route path of d itself: "/" for the
\* root, otherwise "/" followed by the "/"-joined translated directory fragments.
C1_IndexRouteIsDirectoryRoute ==
    (tpc = "extracted" /\ IsIndexFile) => routePath = DirectoryRoute(dirs)

\* C2: inserting or removing a (group) directory at any position of a file's
\* directory path leaves the derived route path unchanged.
C2_GroupDirectoryIsTransparent ==
    tpc = "extracted" =>
        \A i \in 1..Len(dirs) :
            isGroupSegment(dirs[i]) => routePath = extractRoute(RemoveAt(dirs, i), filename)

\* what a segment that is exactly one of the three capture forms must render as
RendersAs(segment, fragment) ==
    \A n \in Names \cup {<<"i", "d">>, <<"s">>} :
        /\ segment = Capture(n) => fragment = <<":">> \o n
        /\ segment = CatchAll(n) => fragment = <<"*">>
        /\ segment = OptionalCatchAll(n) => fragment = <<":">> \o n \o <<"?", "*">>

\* C3: a segment that is exactly [name] translates to :name, exactly [...name]
\* to *, exactly [[...name]] to :name?*, for the file's base name and for every
\* directory segment; a catch-all is never rendered by the single-capture rule.
C3_CaptureFormsTranslate ==
    tpc = "extracted" =>
        /\ RendersAs(stripExtension(filename), fileFragment)
        /\ dirs # <<>> =>
              /\ Len(mapped) = Len(dirs)
              /\ \A i \in 1..Len(dirs) : RendersAs(dirs[i], mapped[i])

\* C3 witness: an optional catch-all file under a catch-all directory was translated
C3_Witness ==
    /\ tpc = "extracted"
    /\ stripExtension(filename) = OptionalCatchAll(<<"a">>)
    /\ fileFragment = <<":", "a", "?", "*">>
    /\ dirs = << CatchAll(<<"s">>) >>
    /\ mapped = << <<"*">> >>

\* C4: every route path handed to registerRoutes starts with "/" and does not
\* end with "/" unless it is exactly "/", for every tree and every prefix.
C4_RoutePathAbsoluteNoTrailingSlash ==
    tpc = "prefixed" =>
        /\ routePath # <<>>
        /\ routePath[1] = "/"
        /\ routePath[Len(routePath)] = "/" => routePath = S_slash

\* C5: with prefix /api a root-level index file ends up at exactly /api and any
\* other file at /api followed by its derived route path.
C5_PrefixJoined ==
    (tpc = "prefixed" /\ prefix = S_api) =>
        IF dirs = <<>> /\ IsIndexFile
            THEN routePath = S_api
            ELSE routePath = S_api \o extractRoute(dirs, filename)

-----------------------------------------------------------------------------
(* Directory scanner *)

RootDir == <<"/", "r">>

\* the absolute path of a file given by its entry names below the root
fullPath(p) == RootDir \o S_slash \o join(p, SEP)

\* the last index at which c occurs in s, 0 when there is none
RECURSIVE lastIndexOf(_, _, _)
lastIndexOf(s, c, from) ==
    IF from < 1 THEN 0
    ELSE IF s[from] = c THEN from
    ELSE lastIndexOf(s, c, from - 1)

\* path.dirname and path.basename of an absolute file path
pathDirname(f) ==
    LET k == lastIndexOf(f, SEP, Len(f))
    IN  IF k = 0 THEN S_dot ELSE IF k = 1 THEN S_slash ELSE SubSeq(f, 1, k - 1)

pathBasename(f) == SubSeq(f, lastIndexOf(f, SEP, Len(f)) + 1, Len(f))

\* path.extname of a file name
pathExtname(name) ==
    LET k == lastIndexOf(name, ".", Len(name))
    IN  IF k <= 1 THEN <<>> ELSE SubSeq(name, k, Len(name))

\* path.relative(rootDir, filePath) for a file below the root, as entry names
relativeNames(f) == split(SubSeq(f, Len(RootDir) + 2, Len(f)), SEP)

\* An ignore pattern is a literal, optionally anchored at the end:
\* /node_modules/ is [lit |-> "node_modules", atEnd |-> FALSE],
\* /\.d\.ts$/ is [lit |-> ".d.ts", atEnd |-> TRUE].
patternTest(pat, str) == IF pat.atEnd THEN endsWith(str, pat.lit) ELSE includes(str, pat.lit)

P_node_modules ==
    [lit |-> <<"n", "o", "d", "e", "_", "m", "o", "d", "u", "l", "e", "s">>, atEnd |-> FALSE]
P_test  == [lit |-> <<".", "t", "e", "s", "t", ".">>, atEnd |-> FALSE]
P_spec  == [lit |-> <<".", "s", "p", "e", "c", ".">>, atEnd |-> FALSE]
P_dts   == [lit |-> S_dts, atEnd |-> TRUE]
P_testjs == [lit |-> <<".", "t", "e", "s", "t", ".", "j", "s">>, atEnd |-> TRUE]
P_specjs == [lit |-> <<".", "s", "p", "e", "c", ".", "j", "s">>, atEnd |-> TRUE]
P_a_b   == [lit |-> <<"a", "/", "b">>, atEnd |-> FALSE]

\* DEFAULT_SCAN_OPTIONS, the options of a scanDirectories call without options
DEFAULT_SCAN_OPTIONS ==
    [ignore |-> {P_node_modules, P_test, P_spec, P_dts}, extensions |-> DefaultExtensions]

\* pluginImpl's scanOptions when the caller configures neither ignore nor extensions
PluginScanOptions ==
    [ignore |-> {P_node_modules, P_test, P_spec}, extensions |-> DefaultExtensions]

\* fs.access(absoluteRootDir) rejects: the root does not exist
accessRejects(state) == state = "missing"

\* mutant: fs.readdir never rejects
readdirRejects_Never(state) == FALSE

\* fs.readdir(currentDir) rejects: the root does not exist or cannot be read
readdirRejects(state) == state # "ok"

\* the entries fs.readdir lists for directory d
entriesOf(files, d) ==
    {q[Len(d) + 1] : q \in {r \in files : Len(r) > Len(d) /\ SubSeq(r, 1, Len(d)) = d}}

isDirectory(files, d, name) ==
    \E q \in files : Len(q) > Len(d) + 1 /\ SubSeq(q, 1, Len(d) + 1) = Append(d, name)

isFile(files, d, name) == Append(d, name) \in files

\* mutant: only dot-files count as hidden
isSkippedEntry_NoUnderscore(name, options) ==
    \/ \E pat \in options.ignore : patternTest(pat, name)
    \/ startsWith(name, <<".">>)

\* scanRecursive: the two `continue` tests on an entry
isSkippedEntry(name, options) ==
    \/ \E pat \in options.ignore : patternTest(pat, name)
    \/ startsWith(name, <<".">>)
    \/ startsWith(name, <<"_">>)

isRouteFile(name, extensions) == pathExtname(name) \in extensions

\* the distinct values of a sequence, in order of first occurrence
RECURSIVE firstOccurrences(_, _)
firstOccurrences(seq, seen) ==
    IF seq = <<>> THEN <<>>
    ELSE IF Head(seq) \in seen THEN firstOccurrences(Tail(seq), seen)
    ELSE <<Head(seq)>> \o firstOccurrences(Tail(seq), seen \cup {Head(seq)})

\* mutant: no file counts as a declaration file
isDeclarationFile_Never(file) == FALSE

\* file.endsWith(".d.ts"), the test of prioritizeJsFiles, loadRouteModule and
\* registerRoutes
isDeclarationFile(file) == endsWith(file, S_dts)

\* Array.prototype.find(f => f.endsWith(ext)): <<the file>>, or <<>> for undefined
findEndsWith(files, ext) ==
    LET hits == SelectSeq(files, LAMBDA f : endsWith(f, ext))
    IN  IF hits = <<>> THEN <<>> ELSE <<hits[1]>>

\* prioritizeJsFiles: the key of a file in fileMap
fileKey(f) == posixJoin(pathDirname(f), stripExtension(pathBasename(f)))

\* mutant: the first file listed of each group is kept
selectFromGroup_First(files) == <<files[1]>>

\* prioritizeJsFiles: what one group of fileMap pushes to the result
selectFromGroup(files) ==
    IF Len(files) = 1 THEN <<files[1]>>
    ELSE IF findEndsWith(files, S_js) # <<>> THEN findEndsWith(files, S_js)
    ELSE IF findEndsWith(files, S_mjs) # <<>> THEN findEndsWith(files, S_mjs)
    ELSE IF findEndsWith(files, S_cjs) # <<>> THEN findEndsWith(files, S_cjs)
    ELSE findEndsWith(files, S_ts)

RECURSIVE concatGroups(_, _)
concatGroups(keys, files) ==
    IF keys = <<>> THEN <<>>
    ELSE selectFromGroup(SelectSeq(files, LAMBDA f : fileKey(f) = Head(keys)))
            \o concatGroups(Tail(keys), files)

prioritizeJsFiles(files) ==
    LET nonDeclarationFiles == SelectSeq(files, LAMBDA f : ~isDeclarationFile(f))
        keys == firstOccurrences([i \in 1..Len(nonDeclarationFiles) |->
                                     fileKey(nonDeclarationFiles[i])], {})
    IN  concatGroups(keys, nonDeclarationFiles)

-----------------------------------------------------------------------------
(* Inputs of the scan *)

MaxFiles == 3        \* files below the routes root

N_a    == <<"a">>
N_p    == <<"_", "p">>
N_h    == <<".", "h">>
N_nm   == P_node_modules.lit
N_f_js   == <<"f", ".", "j", "s">>
N_f_ts   == <<"f", ".", "t", "s">>
N_f_mjs  == <<"f", ".", "m", "j", "s">>
N_f_cjs  == <<"f", ".", "c", "j", "s">>
N_f_dts  == <<"f", ".", "d", ".", "t", "s">>
N_f_test == <<"f", ".", "t", "e", "s", "t", ".", "j", "s">>
N_uf_js  == <<"_", "f", ".", "j", "s">>
N_r_md   == <<"r", ".", "m", "d">>
N_b_js   == <<"b", ".", "j", "s">>

ScanCandidates ==
    { <<N_f_js>>, <<N_f_ts>>, <<N_f_mjs>>, <<N_f_cjs>>, <<N_f_dts>>, <<N_f_test>>,
      <<N_uf_js>>, <<N_r_md>>,
      <<N_a, N_f_js>>, <<N_a, N_f_ts>>, <<N_a, N_b_js>>,
      <<N_p, N_f_js>>, <<N_h, N_f_js>>, <<N_nm, N_f_js>>, <<N_a, N_p, N_f_js>> }

\* the README's advanced configuration
ReadmeScanOptions == [ignore |-> {P_testjs, P_specjs}, extensions |-> {S_js, S_ts}]

\* an ignore pattern that spans a path separator
PathPatternOptions == [ignore |-> {P_a_b}, extensions |-> DefaultExtensions]

ScanOptionSets ==
    {DEFAULT_SCAN_OPTIONS, PluginScanOptions, ReadmeScanOptions, PathPatternOptions}

-----------------------------------------------------------------------------
(* scanDirectories, one directory entry at a time *)

RootStates == {"ok", "missing", "unreadable"}

SInit ==
    /\ rootState \in RootStates
    /\ fs = {}
    /\ scanOptions = DEFAULT_SCAN_OPTIONS
    /\ stack = <<>>
    /\ allFiles = <<>>
    /\ routeFiles = <<>>
    /\ spc = "setup"

\* a file exists below the routes root before the scan starts
SAddFile(p) ==
    /\ spc = "setup"
    /\ Cardinality(fs) < MaxFiles
    /\ p \notin fs
    /\ fs' = fs \cup {p}
    /\ UNCHANGED <<rootState, scanOptions, stack, allFiles, routeFiles, spc>>

\* scanDirectories: fs.access(absoluteRootDir) fails
SAccessFails(opts) ==
    /\ spc = "setup"
    /\ accessRejects(rootState)
    /\ scanOptions' = opts
    /\ spc' = "threw"
    /\ UNCHANGED <<rootState, fs, stack, allFiles, routeFiles>>

\* scanDirectories: fs.access passed, fs.readdir of the root rejects in scanRecursive
\* and the rejection leaves scanDirectories uncaught
SReaddirFails(opts) ==
    /\ spc = "setup"
    /\ ~accessRejects(rootState)
    /\ readdirRejects(rootState)
    /\ scanOptions' = opts
    /\ spc' = "threw"
    /\ UNCHANGED <<rootState, fs, stack, allFiles, routeFiles>>

\* scanDirectories: the root is accessible; scanRecursive reads the root directory
SStart(opts) ==
    /\ spc = "setup"
    /\ ~accessRejects(rootState)
    /\ ~readdirRejects(rootState)
    /\ scanOptions' = opts
    /\ stack' = <<[dir |-> <<>>, pending |-> entriesOf(fs, <<>>)]>>
    /\ allFiles' = <<>>
    /\ spc' = "scan"
    /\ UNCHANGED <<rootState, fs, routeFiles>>

Top == stack[Len(stack)]

setPending(st, pend) == [st EXCEPT ![Len(st)].pending = pend]

\* scanRecursive: one iteration of the loop over the entries, in any listing order
SVisit(name) ==
    /\ spc = "scan"
    /\ name \in Top.pending
    /\ LET rest == setPending(stack, Top.pending \ {name})
           sub  == Append(Top.dir, name)
       IN  IF isSkippedEntry(name, scanOptions)
               THEN stack' = rest /\ UNCHANGED allFiles
           ELSE IF isDirectory(fs, Top.dir, name)
               THEN /\ stack' = Append(rest, [dir |-> sub, pending |-> entriesOf(fs, sub)])
                    /\ UNCHANGED allFiles
           ELSE IF isFile(fs, Top.dir, name) /\ isRouteFile(name, scanOptions.extensions)
               THEN stack' = rest /\ allFiles' = Append(allFiles, fullPath(sub))
           ELSE stack' = rest /\ UNCHANGED allFiles
    /\ UNCHANGED <<rootState, fs, scanOptions, routeFiles, spc>>

\* scanRecursive of a subdirectory returns to the loop of its parent
SReturn ==
    /\ spc = "scan"
    /\ Len(stack) > 1
    /\ Top.pending = {}
    /\ stack' = dropLast(stack, 1)
    /\ UNCHANGED <<rootState, fs, scanOptions, allFiles, routeFiles, spc>>

\* the root scanRecursive returns and scanDirectories returns prioritizeJsFiles(allFiles)
SPrioritize ==
    /\ spc = "scan"
    /\ Len(stack) = 1
    /\ Top.pending = {}
    /\ stack' = <<>>
    /\ routeFiles' = prioritizeJsFiles(allFiles)
    /\ spc' = "done"
    /\ UNCHANGED <<rootState, fs, scanOptions, allFiles>>

\* the entries the running scanRecursive call has still to visit
PendingEntries == IF spc = "scan" THEN Top.pending ELSE {}

SNext ==
    \/ \E p \in ScanCandidates : SAddFile(p) /\ UNCHANGED exceptS
    \/ \E o \in ScanOptionSets : SAccessFails(o) /\ UNCHANGED exceptS
    \/ \E o \in ScanOptionSets : SReaddirFails(o) /\ UNCHANGED exceptS
    \/ \E o \in ScanOptionSets : SStart(o) /\ UNCHANGED exceptS
    \/ \E name \in PendingEntries : SVisit(name) /\ UNCHANGED exceptS
    \/ SReturn /\ UNCHANGED exceptS
    \/ SPrioritize /\ UNCHANGED exceptS

\* no translation in progress
TIdle ==
    /\ dirs = <<>>
    /\ filename = <<>>
    /\ fileFragment = <<>>
    /\ mapped = <<>>
    /\ routePath = <<>>
    /\ prefix = <<>>
    /\ tpc = "idle"

ScanInit == SInit /\ TIdle /\ HIdle /\ RIdle /\ PIdle /\ LIdle /\ MIdle

SpecScan == ScanInit /\ [][SNext]_vars

-----------------------------------------------------------------------------
(* Properties of the scan, checked under SpecScan *)

\* the logical identity of a file: its directory and its name without the extension
Identity(f) ==
    LET name == pathBasename(f)
    IN  <<pathDirname(f), dropLast(name, Len(pathExtname(name)))>>

\* the fixed priority .js, .mjs, .cjs, .ts
ExtensionRank(f) ==
    LET ext == pathExtname(pathBasename(f))
    IN  IF ext = S_js THEN 1 ELSE IF ext = S_mjs THEN 2 ELSE IF ext = S_cjs THEN 3
        ELSE IF ext = S_ts THEN 4 ELSE 5

\* the walked candidate files: what the walk collected, declaration files excluded
Candidates == {allFiles[i] : i \in {j \in DOMAIN allFiles : ~endsWith(allFiles[j], S_dts)}}

\* C6: scanDirectories returns exactly one file for each logical identity found
\* among the walked candidate files, the one of best priority .js, .mjs, .cjs,
\* .ts, whatever the order in which the directory listing enumerates them.
C6_OneFilePerIdentityByPriority ==
    spc = "done" =>
        /\ \A i \in DOMAIN routeFiles : routeFiles[i] \in Candidates
        /\ \A c \in Candidates :
              Cardinality({i \in DOMAIN routeFiles :
                              Identity(routeFiles[i]) = Identity(c)}) = 1
        /\ \A i \in DOMAIN routeFiles : \A c \in Candidates :
              Identity(c) = Identity(routeFiles[i])
                  => ExtensionRank(routeFiles[i]) <= ExtensionRank(c)

\* C6 witness: the listing gave f.ts before f.js and only f.js was returned
C6_Witness ==
    /\ spc = "done"
    /\ allFiles = <<fullPath(<<N_f_ts>>), fullPath(<<N_f_mjs>>), fullPath(<<N_f_js>>)>>
    /\ routeFiles = <<fullPath(<<N_f_js>>)>>

\* the extension of every returned file is accepted, and no entry name on its
\* path below the root is hidden
AcceptedAndVisible(f) ==
    LET names == relativeNames(f)
    IN  /\ pathExtname(names[Len(names)]) \in scanOptions.extensions
        /\ \A j \in DOMAIN names : names[j][1] \notin {".", "_"}

\* C7 as stated: every returned file has an accepted extension, its path matches
\* no ignore pattern, and neither its filename nor any directory between the root
\* and the file starts with "." or "_".
C7_PathMatchesNoIgnorePattern ==
    spc = "done" =>
        \A i \in DOMAIN routeFiles :
            /\ AcceptedAndVisible(routeFiles[i])
            /\ \A pat \in scanOptions.ignore :
                  ~patternTest(pat, join(relativeNames(routeFiles[i]), SEP))

\* C7 as amended: every returned file has an accepted extension, no entry name on
\* its path (each directory below the root, and the filename) matches an ignore
\* pattern, and none of these names starts with "." or "_".
C7_NoEntryNameMatchesIgnorePattern ==
    spc = "done" =>
        \A i \in DOMAIN routeFiles :
            /\ AcceptedAndVisible(routeFiles[i])
            /\ \A pat \in scanOptions.ignore :
                  \A j \in DOMAIN relativeNames(routeFiles[i]) :
                      ~patternTest(pat, relativeNames(routeFiles[i])[j])

\* C7 witness: a/_p was pruned, a/f.js was returned
C7_Witness ==
    /\ spc = "done"
    /\ fs = {<<N_a, N_p, N_f_js>>, <<N_a, N_f_js>>, <<N_f_test>>}
    /\ scanOptions = PluginScanOptions
    /\ routeFiles = <<fullPath(<<N_a, N_f_js>>)>>

-----------------------------------------------------------------------------
(* Handler extraction *)

\* extractMethodHandlers: methods
HttpMethods == <<"get", "post", "put", "del", "patch", "head", "options">>

HttpMethodSet == {HttpMethods[i] : i \in DOMAIN HttpMethods}

isHttpMethod(key) == key \in HttpMethodSet

\* An exported value: a function (with an identity), an object (its entries in
\* Object.entries order), undefined, or any other value (a number, null, ...).
Fn(id)       == [t |-> "function", id |-> id]
Obj(entries) == [t |-> "object", entries |-> entries]
Other        == [t |-> "other"]

isFunction(v) == v.t = "function"

\* routeModule[method]: the named export, undefined when there is none
namedExport(m, method) ==
    IF \E i \in DOMAIN m.named : m.named[i].key = method
        THEN (CHOOSE e \in {m.named[i] : i \in DOMAIN m.named} : e.key = method).value
    ELSE Undefined

\* mutant: a key that is set again moves to the end
mapSet_Reinsert(map, key, value) ==
    Append(SelectSeq(map, LAMBDA e : e.key # key), [key |-> key, value |-> value])

\* Map.prototype.set: replaces in place, or appends
mapSet(map, key, value) ==
    IF \E i \in DOMAIN map : map[i].key = key
        THEN [i \in DOMAIN map |->
                 IF map[i].key = key THEN [key |-> key, value |-> value] ELSE map[i]]
    ELSE Append(map, [key |-> key, value |-> value])

mapHas(map, key) == \E i \in DOMAIN map : map[i].key = key

mapGet(map, key) == (CHOOSE e \in {map[i] : i \in DOMAIN map} : e.key = key).value

\* the loop over the named exports
RECURSIVE namedHandlers(_, _, _)
namedHandlers(m, i, acc) ==
    IF i > Len(HttpMethods) THEN acc
    ELSE IF isFunction(namedExport(m, HttpMethods[i]))
        THEN namedHandlers(m, i + 1,
                           mapSet(acc, HttpMethods[i], namedExport(m, HttpMethods[i])))
    ELSE namedHandlers(m, i + 1, acc)

\* the loop over Object.entries(routeModule.default)
RECURSIVE defaultObjectHandlers(_, _)
defaultObjectHandlers(entries, acc) ==
    IF entries = <<>> THEN acc
    ELSE LET e == Head(entries) IN
         IF isHttpMethod(e.key) /\ isFunction(e.value)
             THEN defaultObjectHandlers(Tail(entries), mapSet(acc, e.key, e.value))
         ELSE defaultObjectHandlers(Tail(entries), acc)

extractMethodHandlers(m) ==
    LET named == namedHandlers(m, 1, <<>>)
    IN  IF isFunction(m.default)
            THEN (IF Len(named) = 0 THEN mapSet(named, "get", m.default) ELSE named)
        ELSE IF m.default.t = "object"
            THEN defaultObjectHandlers(m.default.entries, named)
        ELSE named

-----------------------------------------------------------------------------
(* Inputs of the handler extraction *)

MaxNamed   == 2      \* named exports of a module under a method token
MaxEntries == 2      \* entries of an object-valued default export

\* keys of an object-valued default export: method tokens and another key
ObjectKeys == {"get", "post", "x"}

NamedFn(method)  == Fn(<<"named", method>>)
DefaultFn        == Fn(<<"default">>)
EntryFn(key)     == Fn(<<"default", key>>)

-----------------------------------------------------------------------------
(* extractMethodHandlers on one module *)

HInit ==
    /\ routeModule = [named |-> <<>>, default |-> Undefined]
    /\ handlers = <<>>
    /\ hpc = "build"

\* the module exports `value` under a method token
HAddNamed(method, value) ==
    /\ hpc = "build"
    /\ Len(routeModule.named) < MaxNamed
    /\ ~mapHas(routeModule.named, method)
    /\ routeModule' = [routeModule EXCEPT !.named = mapSet(@, method, value)]
    /\ UNCHANGED <<handlers, hpc>>

\* the module has a default export that is a function, or a non-object value
HSetDefault(value) ==
    /\ hpc = "build"
    /\ routeModule.default = Undefined
    /\ routeModule' = [routeModule EXCEPT !.default = value]
    /\ UNCHANGED <<handlers, hpc>>

\* the module's default export is an object with one more entry
HAddDefaultEntry(key, value) ==
    /\ hpc = "build"
    /\ routeModule.default.t \in {"undefined", "object"}
    /\ LET entries == IF routeModule.default.t = "object"
                          THEN routeModule.default.entries ELSE <<>>
       IN  /\ Len(entries) < MaxEntries
           /\ ~mapHas(entries, key)
           /\ routeModule' = [routeModule EXCEPT !.default = Obj(mapSet(entries, key, value))]
    /\ UNCHANGED <<handlers, hpc>>

HExtract ==
    /\ hpc = "build"
    /\ handlers' = extractMethodHandlers(routeModule)
    /\ hpc' = "extracted"
    /\ UNCHANGED routeModule

HNext ==
    \/ \E method \in HttpMethodSet : \E value \in {NamedFn(method), Other} :
            HAddNamed(method, value) /\ UNCHANGED exceptH
    \/ \E value \in {DefaultFn, Other, Obj(<<>>)} :
            HSetDefault(value) /\ UNCHANGED exceptH
    \/ \E key \in ObjectKeys : \E value \in {EntryFn(key), Other} :
            HAddDefaultEntry(key, value) /\ UNCHANGED exceptH
    \/ HExtract /\ UNCHANGED exceptH

HandlersInit == HInit /\ TIdle /\ SIdle /\ RIdle /\ PIdle /\ LIdle /\ MIdle

SpecHandlers == HandlersInit /\ [][HNext]_vars

-----------------------------------------------------------------------------
(* Properties of the handler extraction, checked under SpecHandlers *)

\* the function-valued named method exports of the module
NamedFunctionMethods ==
    {method \in HttpMethodSet : isFunction(namedExport(routeModule, method))}

\* C9: named per-method exports take precedence over the default export: when
\* the module has a function-valued named method export, the handler map is
\* exactly the named exports, whatever the default export is.
C9_NamedExportsTakePrecedence ==
    (hpc = "extracted" /\ NamedFunctionMethods # {}) =>
        /\ {handlers[i].key : i \in DOMAIN handlers} = NamedFunctionMethods
        /\ \A i \in DOMAIN handlers :
              handlers[i].value = namedExport(routeModule, handlers[i].key)

-----------------------------------------------------------------------------
(* Route registrar *)

\* extractRouteInfo without a pathTransform: one RouteInfo per file path
extractRouteInfo(filePaths) ==
    [i \in DOMAIN filePaths |->
        LET names == relativeNames(filePaths[i])
        IN  [filePath |-> filePaths[i],
             routePath |-> extractRoute(dropLast(names, 1), names[Len(names)]),
             filename |-> names[Len(names)]]]

\* the RouteInfo of the file with entry names p below the root
routeInfo(p) == extractRouteInfo(<<fullPath(p)>>)[1]

\* filePath.replace(/\.ts$/, ".js")
jsFilePathOf(filePath) == dropLast(filePath, 3) \o S_js

\* mutant: the file itself is always imported
actualFilePathOf_Same(filePath, jsExists) == filePath

\* loadRouteModule: the file the module is imported from, the .js file beside a
\* .ts file when existsSync finds it, else the file itself
actualFilePathOf(filePath, jsExists) ==
    IF endsWith(filePath, S_ts) /\ jsExists THEN jsFilePathOf(filePath) ELSE filePath

\* existsSync(f) for a file below the routes root
existsSync(files, f) == \E q \in files : fullPath(q) = f

\* mutant: a .ts descriptor replaces a .js one
replacesExisting_Swapped(route, existing) ==
    endsWith(route.filePath, S_ts) /\ endsWith(existing.filePath, S_js)

\* registerRoutes: a JS file replacing a TS file for the same route path
replacesExisting(route, existing) ==
    endsWith(route.filePath, S_js) /\ endsWith(existing.filePath, S_ts)

\* the loop filling routePathMap
RECURSIVE fillRoutePathMap(_, _)
fillRoutePathMap(list, map) ==
    IF list = <<>> THEN map
    ELSE LET route == Head(list) IN
         IF ~mapHas(map, route.routePath)
            \/ replacesExisting(route, mapGet(map, route.routePath))
             THEN fillRoutePathMap(Tail(list), mapSet(map, route.routePath, route))
         ELSE fillRoutePathMap(Tail(list), map)

\* mutant: every descriptor that is no declaration file is kept
dedupeRoutes_KeepAll(list) ==
    SelectSeq(list, LAMBDA route : ~isDeclarationFile(route.filePath))

\* registerRoutes up to the loop: filteredRoutes, routePathMap, routesToRegister
dedupeRoutes(list) ==
    LET filteredRoutes == SelectSeq(list, LAMBDA route : ~isDeclarationFile(route.filePath))
        routePathMap == fillRoutePathMap(filteredRoutes, <<>>)
    IN  [i \in DOMAIN routePathMap |-> routePathMap[i].value]

\* mutant: every token is upper-cased
httpVerb_UpperOnly(method) ==
    CASE method = "get" -> "GET"
      [] method = "post" -> "POST"
      [] method = "put" -> "PUT"
      [] method = "del" -> "DEL"
      [] method = "patch" -> "PATCH"
      [] method = "head" -> "HEAD"
      [] method = "options" -> "OPTIONS"

\* method === "del" ? "DELETE" : method.toUpperCase()
httpVerb(method) ==
    CASE method = "get" -> "GET"
      [] method = "post" -> "POST"
      [] method = "put" -> "PUT"
      [] method = "del" -> "DELETE"
      [] method = "patch" -> "PATCH"
      [] method = "head" -> "HEAD"
      [] method = "options" -> "OPTIONS"

\* the exports of the module of file f, by its shape: the handlers it exports,
\* its hooks export and its schema export
moduleOf(f, shape) ==
    LET exports ==
            CASE shape.exports = "get" ->
                    [named |-> <<[key |-> "get", value |-> Fn(<<f, "get">>)]>>,
                     default |-> Undefined]
              [] shape.exports = "get+put" ->
                    [named |-> <<[key |-> "put", value |-> Fn(<<f, "put">>)],
                                 [key |-> "get", value |-> Fn(<<f, "get">>)]>>,
                     default |-> Undefined]
              [] shape.exports = "get+del" ->
                    [named |-> <<[key |-> "get", value |-> Fn(<<f, "get">>)],
                                 [key |-> "del", value |-> Fn(<<f, "del">>)]>>,
                     default |-> Undefined]
              [] shape.exports = "default" ->
                    [named |-> <<>>, default |-> Fn(<<f, "default">>)]
              [] shape.exports = "none" ->
                    [named |-> <<>>, default |-> Undefined]
    IN  [named |-> exports.named, default |-> exports.default,
         hooks |-> shape.hooks, schema |-> shape.schema]

\* the descriptor the loop is at
CurrentRoute == routesToRegister[ri]

\* mutant: the loop ends after the first descriptor
nextRpc_Abort(i) == "done"

\* the loop moves on to the next descriptor, or the call returns
nextRpc(i) == IF i > Len(routesToRegister) THEN "done" ELSE "load"

\* registerRoutes is called: the descriptors are filtered and deduplicated
RCall(list, hooks) ==
    /\ routes' = list
    /\ globalHooks' = hooks
    /\ callerHooks' = hooks
    /\ routesToRegister' = dedupeRoutes(list)
    /\ ri' = 1
    /\ rpc' = IF dedupeRoutes(list) = <<>> THEN "done" ELSE "load"
    /\ UNCHANGED <<pendingHandlers, loadCalls, server, logs, module>>

\* loadRouteModule yields null: a warning, and the loop continues
RLoadFails ==
    /\ rpc = "load"
    /\ loadCalls' = Append(loadCalls,
            [filePath |-> CurrentRoute.filePath, imported |-> <<>>, module |-> <<>>])
    /\ logs' = Append(logs, [level |-> "warn", file |-> CurrentRoute.filePath])
    /\ ri' = ri + 1
    /\ rpc' = nextRpc(ri + 1)
    /\ UNCHANGED <<routes, routesToRegister, pendingHandlers, server, globalHooks,
                   callerHooks, module>>

\* loadRouteModule yields a module: its handlers are extracted
RLoad(shape, jsExists) ==
    /\ rpc = "load"
    /\ ~endsWith(CurrentRoute.filePath, S_dts)
    /\ LET actualFilePath == actualFilePathOf(CurrentRoute.filePath, jsExists)
           imported == moduleOf(actualFilePath, shape)
           methodHandlers == extractMethodHandlers(imported)
       IN  /\ loadCalls' = Append(loadCalls,
                   [filePath |-> CurrentRoute.filePath, imported |-> actualFilePath,
                    module |-> <<imported>>])
           /\ module' = imported
           /\ pendingHandlers' = methodHandlers
           /\ IF methodHandlers = <<>>
                  THEN ri' = ri + 1 /\ rpc' = nextRpc(ri + 1)
                  ELSE ri' = ri /\ rpc' = "routes"
    /\ UNCHANGED <<routes, routesToRegister, server, logs, globalHooks, callerHooks>>

\* { ...a, ...b } and Object.assign(a, b) on one key: b's value when b has the key
assignKey(a, b) == IF b # <<>> THEN b ELSE a

\* method === "del" ? "delete" : method
schemaKeyOf(method) == IF method = "del" THEN "delete" ELSE method

\* mutant: the fields of the first object win
mergeSchema_FirstWins(a, b) ==
    [tags |-> assignKey(b.tags, a.tags), body |-> assignKey(b.body, a.body),
     response |-> assignKey(b.response, a.response)]

\* { ...a, ...b } of two schema objects
mergeSchema(a, b) ==
    [tags |-> assignKey(a.tags, b.tags), body |-> assignKey(a.body, b.body),
     response |-> assignKey(a.response, b.response)]

\* "tags" in methodSchema && Array.isArray(tags) && tags.length > 0
hasTags(methodSchema) == methodSchema.tags # <<>> /\ methodSchema.tags[1] # <<>>

\* the object routeOptions.schema refers to before the schema of the module is
\* merged: the one of module.hooks, else the one of globalHooks, else none
schemaOwner(gh, mod) ==
    IF mod.hooks.schema # <<>> THEN "module"
    ELSE IF gh.schema # <<>> THEN "global"
    ELSE "none"

\* the object the tags are written to: routeOptions.schema, or a new {} when
\* routeOptions has none
tagsTarget(gh, mod) ==
    CASE schemaOwner(gh, mod) = "module" -> mod.hooks.schema[1]
      [] schemaOwner(gh, mod) = "global" -> gh.schema[1]
      [] schemaOwner(gh, mod) = "none" -> EmptySchema

\* a field set in the literal of lines 420-425, then spread over by globalHooks
\* (line 424) and assigned from module.hooks (line 429) when they hold the key
spreadOver(own, g, m) ==
    IF assignKey(g, m) # <<>> THEN assignKey(g, m)[1] ELSE own

\* mutant: the route options do not take the hooks of the module
routeOptionsOf_GlobalOnly(route, entry, gh, mod) ==
    [method |-> httpVerb(entry.key), url |-> route.routePath, handler |-> entry.value,
     from |-> route.filePath,
     onRequest |-> gh.onRequest, preHandler |-> gh.preHandler, schema |-> gh.schema]

\* the route options built for one handler: method, url, handler, globalHooks,
\* then the hooks of the module, then the schema of the module for the method
routeOptionsOf(route, entry, gh, mod) ==
    LET methodSchema == mod.schema[schemaKeyOf(entry.key)]
        spread == assignKey(gh.schema, mod.hooks.schema)
        tagged == [tagsTarget(gh, mod) EXCEPT !.tags = methodSchema[1].tags]
        schemaWithTags == IF hasTags(methodSchema[1])
                              THEN [methodSchema[1] EXCEPT !.tags = <<>>]
                              ELSE methodSchema[1]
        base == IF hasTags(methodSchema[1]) THEN tagged ELSE tagsTarget(gh, mod)
    IN  [method |-> spreadOver(httpVerb(entry.key), gh.method, mod.hooks.method),
         url |-> spreadOver(route.routePath, gh.url, mod.hooks.url),
         handler |-> spreadOver(entry.value, gh.handler, mod.hooks.handler),
         from |-> route.filePath,
         onRequest |-> assignKey(gh.onRequest, mod.hooks.onRequest),
         preHandler |-> assignKey(gh.preHandler, mod.hooks.preHandler),
         schema |-> IF methodSchema # <<>>
                        THEN <<mergeSchema(base, schemaWithTags)>>
                        ELSE spread]

\* (routeOptions.schema as any).tags = tags writes to the schema object of the
\* module's hooks when routeOptions.schema is that object
moduleAfter(entry, gh, mod) ==
    LET methodSchema == mod.schema[schemaKeyOf(entry.key)] IN
    IF methodSchema # <<>> /\ hasTags(methodSchema[1]) /\ schemaOwner(gh, mod) = "module"
        THEN [mod EXCEPT !.hooks.schema =
                 <<[mod.hooks.schema[1] EXCEPT !.tags = methodSchema[1].tags]>>]
    ELSE mod

\* ... and to the schema object of globalHooks when routeOptions.schema is that one
globalHooksAfter(entry, gh, mod) ==
    LET methodSchema == mod.schema[schemaKeyOf(entry.key)] IN
    IF methodSchema # <<>> /\ hasTags(methodSchema[1]) /\ schemaOwner(gh, mod) = "global"
        THEN [gh EXCEPT !.schema = <<[gh.schema[1] EXCEPT !.tags = methodSchema[1].tags]>>]
    ELSE gh

\* fastify.route accepts the route of the next handler
RRoute ==
    /\ rpc = "routes"
    /\ server' = Append(server,
            routeOptionsOf(CurrentRoute, Head(pendingHandlers), globalHooks, module))
    /\ globalHooks' = globalHooksAfter(Head(pendingHandlers), globalHooks, module)
    /\ module' = moduleAfter(Head(pendingHandlers), globalHooks, module)
    /\ logs' = Append(logs, [level |-> "debug", file |-> CurrentRoute.filePath])
    /\ pendingHandlers' = Tail(pendingHandlers)
    /\ IF Tail(pendingHandlers) = <<>>
           THEN ri' = ri + 1 /\ rpc' = nextRpc(ri + 1)
           ELSE ri' = ri /\ rpc' = "routes"
    /\ UNCHANGED <<routes, routesToRegister, loadCalls, callerHooks>>

\* fastify.route throws on the route options built for the next handler: the catch
\* around the body of the loop logs, and the loop goes to the next descriptor
RRouteThrows ==
    /\ rpc = "routes"
    /\ globalHooks' = globalHooksAfter(Head(pendingHandlers), globalHooks, module)
    /\ module' = moduleAfter(Head(pendingHandlers), globalHooks, module)
    /\ logs' = Append(logs, [level |-> "error", file |-> CurrentRoute.filePath,
                             method |-> Head(pendingHandlers).key])
    /\ pendingHandlers' = <<>>
    /\ ri' = ri + 1
    /\ rpc' = nextRpc(ri + 1)
    /\ UNCHANGED <<routes, routesToRegister, loadCalls, server, callerHooks>>

-----------------------------------------------------------------------------
(* Inputs of a registerRoutes call *)

MaxRoutes == 3       \* descriptors in the list registerRoutes is given

N_g      == <<"(", "g", ")">>
N_h2     == <<"(", "h", ")">>
N_p_js   == <<"p", ".", "j", "s">>
N_p_ts   == <<"p", ".", "t", "s">>
N_p_mjs  == <<"p", ".", "m", "j", "s">>
N_q_ts   == <<"q", ".", "t", "s">>
N_q_dts  == <<"q", ".", "d", ".", "t", "s">>
N_users  == <<"u", "s", "e", "r", "s">>
N_id_js  == <<"[", "i", "d", "]", ".", "j", "s">>

\* files whose descriptors collide on /p, a file alone on /q, a declaration file,
\* and users/[id].js
RegisterCandidates ==
    { <<N_g, N_p_js>>, <<N_h2, N_p_ts>>, <<N_h2, N_p_mjs>>,
      <<N_g, N_q_ts>>, <<N_g, N_q_dts>>, <<N_users, N_id_js>> }

\* a module that exports handlers only
PlainShape(e) == [exports |-> e, hooks |-> EmptyHooks, schema |-> NoSchemas]

\* a schema object with one tag and a body
TaggedSchema == [tags |-> <<<<"t">>>>, body |-> <<"B">>, response |-> <<>>]

\* a module with get and del, an onRequest hook, and a tagged schema for get
TaggedShape ==
    [exports |-> "get+del",
     hooks |-> [EmptyHooks EXCEPT !.onRequest = <<"M">>],
     schema |-> [NoSchemas EXCEPT !.get = <<TaggedSchema>>]]

ModuleShapes == {PlainShape("get+put"), TaggedShape}

\* globalHooks with two hooks and a schema object
SomeHooks ==
    [EmptyHooks EXCEPT !.onRequest = <<"G">>, !.preHandler = <<"G">>,
                       !.schema = <<[EmptySchema EXCEPT !.response = <<"R">>]>>]

\* the globalHooks argument: the default {} or SomeHooks
GlobalHooksSets == {EmptyHooks, SomeHooks}

-----------------------------------------------------------------------------
(* registerRoutes called with any list of descriptors *)

RInit ==
    /\ routes = <<>>
    /\ routesToRegister = <<>>
    /\ ri = 0
    /\ pendingHandlers = <<>>
    /\ loadCalls = <<>>
    /\ server = <<>>
    /\ logs = <<>>
    /\ globalHooks = EmptyHooks
    /\ callerHooks = EmptyHooks
    /\ module = NoModule
    /\ rpc = "setup"

\* the caller's list holds one more descriptor
RAddDescriptor(p) ==
    /\ rpc = "setup"
    /\ Len(routes) < MaxRoutes
    /\ \A i \in DOMAIN routes : routes[i] # routeInfo(p)
    /\ routes' = Append(routes, routeInfo(p))
    /\ UNCHANGED <<routesToRegister, ri, pendingHandlers, loadCalls, server, logs,
                   globalHooks, callerHooks, module, rpc>>

RNext ==
    \/ \E p \in RegisterCandidates : RAddDescriptor(p) /\ UNCHANGED exceptR
    \/ (rpc = "setup" /\ RCall(routes, EmptyHooks)) /\ UNCHANGED exceptR
    \/ RLoadFails /\ UNCHANGED exceptR
    \/ \E shape \in ModuleShapes, jsExists \in BOOLEAN :
          RLoad(shape, jsExists) /\ UNCHANGED exceptR
    \/ RRoute /\ UNCHANGED exceptR
    \/ RRouteThrows /\ UNCHANGED exceptR

RegisterInit == RInit /\ TIdle /\ SIdle /\ HIdle /\ PIdle /\ LIdle /\ MIdle

\* registerRoutes(fastify, routes): globalHooks is the default {}
SpecRegister == RegisterInit /\ [][RNext]_vars

-----------------------------------------------------------------------------
(* registerRoutes called with globalHooks, on modules with hooks and schemas *)

\* a module with get and put, a preHandler hook and a schema object in its hooks,
\* and a tagged schema for get
HookSchemaShape ==
    [exports |-> "get+put",
     hooks |-> [EmptyHooks EXCEPT !.preHandler = <<"M">>,
                                  !.schema = <<[EmptySchema EXCEPT !.body = <<"MB">>]>>],
     schema |-> [NoSchemas EXCEPT !.get = <<TaggedSchema>>]]

\* a module with get and del whose schema for delete has an empty tags array
EmptyTagsShape ==
    [exports |-> "get+del",
     hooks |-> EmptyHooks,
     schema |-> [NoSchemas EXCEPT !.delete = <<[EmptySchema EXCEPT !.tags = <<<<>>>>]>>]]

\* a module with get and del whose schema is keyed by the method tokens
DelKeyShape ==
    [exports |-> "get+del",
     hooks |-> EmptyHooks,
     schema |-> [NoSchemas EXCEPT !.get = <<[EmptySchema EXCEPT !.body = <<"B">>]>>,
                                  !.del = <<[EmptySchema EXCEPT !.body = <<"D">>]>>]]

\* a module with get whose hooks export holds a handler
HandlerKeyShape ==
    [exports |-> "get",
     hooks |-> [EmptyHooks EXCEPT !.handler = <<Fn(<<S_slash, "hooks">>)>>],
     schema |-> NoSchemas]

HookShapes ==
    {PlainShape("get+put"), PlainShape("default"), PlainShape("none"), TaggedShape,
     HookSchemaShape, EmptyTagsShape, DelKeyShape, HandlerKeyShape}

\* globalHooks with one hook and no schema
OneHook == [EmptyHooks EXCEPT !.onRequest = <<"G">>]

\* globalHooks that hold a method and a url
RouteKeyHooks == [EmptyHooks EXCEPT !.method = <<"POST">>, !.url = <<S_slash \o <<"x">>>>]

HookSets == {EmptyHooks, OneHook, SomeHooks, RouteKeyHooks}

\* the descriptor lists: one file, two files, a .ts file first
HookRouteLists ==
    { <<routeInfo(<<N_users, N_id_js>>)>>,
      <<routeInfo(<<N_g, N_p_js>>), routeInfo(<<N_users, N_id_js>>)>>,
      <<routeInfo(<<N_g, N_q_ts>>), routeInfo(<<N_g, N_p_js>>)>> }

KInit ==
    /\ routes \in HookRouteLists
    /\ routesToRegister = <<>>
    /\ ri = 0
    /\ pendingHandlers = <<>>
    /\ loadCalls = <<>>
    /\ server = <<>>
    /\ logs = <<>>
    /\ globalHooks = EmptyHooks
    /\ callerHooks = EmptyHooks
    /\ module = NoModule
    /\ rpc = "setup"

KNext ==
    \/ \E hooks \in HookSets :
          (rpc = "setup" /\ RCall(routes, hooks)) /\ UNCHANGED exceptR
    \/ RLoadFails /\ UNCHANGED exceptR
    \/ \E shape \in HookShapes, jsExists \in BOOLEAN :
          RLoad(shape, jsExists) /\ UNCHANGED exceptR
    \/ RRoute /\ UNCHANGED exceptR
    \/ RRouteThrows /\ UNCHANGED exceptR

HooksInit == KInit /\ TIdle /\ SIdle /\ HIdle /\ PIdle /\ LIdle /\ MIdle

SpecHooks == HooksInit /\ [][KNext]_vars

-----------------------------------------------------------------------------
(* Properties of the registration, checked under SpecRegister *)

\* the descriptors of the input that do not point at a declaration file
Eligible == {i \in DOMAIN routes : ~endsWith(routes[i].filePath, S_dts)}

\* the eligible descriptors sharing the route path rp, by index
SharingPath(rp) == {i \in Eligible : routes[i].routePath = rp}

Min(set) == CHOOSE x \in set : \A y \in set : x <= y

\* the descriptor C10 says is kept for route path rp: the first .js one when the
\* first descriptor is a .ts one and a .js one shares the path, else the first
KeptFor(rp) ==
    LET group == SharingPath(rp)
        first == routes[Min(group)]
        js    == {i \in group : endsWith(routes[i].filePath, S_js)}
    IN  IF endsWith(first.filePath, S_ts) /\ js # {} THEN routes[Min(js)] ELSE first

\* what loadRouteModule was given, and what the server holds, come from descriptor d
LoadedFor(k, d) == loadCalls[k].filePath = d.filePath
RegisteredFor(k, d) == server[k].url = d.routePath /\ server[k].from = d.filePath

\* C10: registerRoutes keeps exactly one descriptor per distinct route path; a
\* .js-sourced descriptor wins over a .ts-sourced one whichever comes first, in
\* every other case the first descriptor in input order is kept; only the kept
\* descriptors are loaded and registered.
C10_OneDescriptorPerRoutePath ==
    rpc \in {"load", "routes", "done"} =>
        /\ \A i \in Eligible :
              Cardinality({j \in DOMAIN routesToRegister :
                  routesToRegister[j].routePath = routes[i].routePath}) = 1
        /\ \A j \in DOMAIN routesToRegister :
              /\ SharingPath(routesToRegister[j].routePath) # {}
              /\ routesToRegister[j] = KeptFor(routesToRegister[j].routePath)
        /\ \A k \in DOMAIN loadCalls :
              \E j \in DOMAIN routesToRegister : LoadedFor(k, routesToRegister[j])
        /\ \A k \in DOMAIN server :
              \E j \in DOMAIN routesToRegister : RegisteredFor(k, routesToRegister[j])

\* C10 witness: (h)/p.ts came first, (g)/p.js replaced it and was registered
C10_Witness ==
    /\ rpc = "done"
    /\ routes = <<routeInfo(<<N_h2, N_p_ts>>), routeInfo(<<N_h2, N_p_mjs>>),
                  routeInfo(<<N_g, N_p_js>>)>>
    /\ routesToRegister = <<routeInfo(<<N_g, N_p_js>>)>>
    /\ Len(loadCalls) = 1
    /\ loadCalls[1].filePath = fullPath(<<N_g, N_p_js>>)
    /\ loadCalls[1].imported = fullPath(<<N_g, N_p_js>>)
    /\ Len(server) = 2


\* descriptor j of routesToRegister has been processed by the loop
Finished(j) == j \in DOMAIN routesToRegister /\ (j < ri \/ rpc = "done")

\* loadRouteModule yielded a module for descriptor j
Loaded(j) == j \in DOMAIN loadCalls /\ loadCalls[j].module # <<>>

\* the handlers extracted from the module of descriptor j, as it was loaded
HandlersOf(j) == extractMethodHandlers(loadCalls[j].module[1])

\* the routes the server accepted for descriptor j, in order
RoutesFrom(j) ==
    SelectSeq(server, LAMBDA r : r.from = routesToRegister[j].filePath)

\* fastify.route threw on a route of descriptor j
Rejected(j) ==
    \E k \in DOMAIN logs :
        logs[k].level = "error" /\ logs[k].file = routesToRegister[j].filePath

\* String.prototype.toUpperCase on the method tokens
UpperCase ==
    [get |-> "GET", post |-> "POST", put |-> "PUT", del |-> "DEL", patch |-> "PATCH",
     head |-> "HEAD", options |-> "OPTIONS"]

\* the method C11 states for a token
StatedMethod(token) == IF token = "del" THEN "DELETE" ELSE UpperCase[token]

URL_users_id == <<"/", "u", "s", "e", "r", "s", "/", ":", "i", "d">>

\* the file path of routes/users/[id].js
FilePath_users_id ==
    RootDir \o <<"/", "u", "s", "e", "r", "s", "/", "[", "i", "d", "]", ".", "j", "s">>

C12_OnlyRejectedRouteSkipped ==
    \A j \in DOMAIN routesToRegister :
        (Finished(j) /\ Loaded(j)) =>
            LET accepted == RoutesFrom(j)
                extracted == HandlersOf(j)
            IN  \A i \in DOMAIN extracted :
                    \/ \E r \in DOMAIN accepted : accepted[r].handler = extracted[i].value
                    \/ \E k \in DOMAIN logs :
                          /\ logs[k].level = "error"
                          /\ logs[k].file = routesToRegister[j].filePath
                          /\ logs[k].method = extracted[i].key

\* loadRouteModule yielded null for descriptor j
LoadFailed(j) == j \in DOMAIN loadCalls /\ loadCalls[j].module = <<>>

\* a warning was logged for descriptor j
Warned(j) ==
    \E k \in DOMAIN logs :
        logs[k].level = "warn" /\ logs[k].file = routesToRegister[j].filePath

\* C13: if loading the module of one descriptor fails, no route is registered for
\* that descriptor and a warning is logged, and every handler of every other
\* surviving descriptor, earlier and later in the order, is still registered.
C13_LoadFailureSkipsOneFile ==
    rpc = "done" =>
        /\ Len(loadCalls) = Len(routesToRegister)
        /\ \A j \in DOMAIN routesToRegister :
              /\ LoadFailed(j) => (RoutesFrom(j) = <<>> /\ Warned(j))
              /\ (Loaded(j) /\ ~Rejected(j)) =>
                    LET accepted == RoutesFrom(j)
                        extracted == HandlersOf(j)
                    IN  \A i \in DOMAIN extracted :
                            \E r \in DOMAIN accepted :
                                accepted[r].handler = extracted[i].value

\* C13 witness: of three descriptors the second failed to load, and the first and
\* the third have their routes on the server
C13_Witness ==
    /\ rpc = "done"
    /\ Len(routesToRegister) = 3
    /\ Loaded(1) /\ LoadFailed(2) /\ Loaded(3)
    /\ RoutesFrom(1) # <<>> /\ RoutesFrom(2) = <<>> /\ RoutesFrom(3) # <<>>

-----------------------------------------------------------------------------
(* The plugin call: pluginImpl from the options to the summary log *)

\* !options.routesDir
routesDirMissing(opts) == opts.routesDir = <<>>

\* the loop applying options.prefix to every route
prefixRoutes(list, p) ==
    [i \in DOMAIN list |-> [list[i] EXCEPT !.routePath = applyPrefix(p, list[i].routePath)]]



\* files of a routes directory: a root-level file, a .js/.ts pair, a lone .ts file
PluginCandidates ==
    { <<N_p_js>>, <<N_g, N_p_js>>, <<N_g, N_p_ts>>, <<N_g, N_q_ts>> }

\* options with and without routesDir (<<>> is a missing or empty one), with and
\* without a prefix
PluginOptionSets ==
    {[routesDir |-> d, prefix |-> p, globalHooks |-> h] :
        d \in {<<>>, RootDir}, p \in {<<>>, S_api}, h \in GlobalHooksSets}

PluginShapes == {PlainShape("get"), PlainShape("get+put"), TaggedShape}

PInit ==
    /\ pluginOptions = [routesDir |-> <<>>, prefix |-> <<>>, globalHooks |-> EmptyHooks]
    /\ ppc = "setup"

\* fastify.register(fastifyFileRoutes, opts)
PCall(opts) ==
    /\ ppc = "setup"
    /\ pluginOptions' = opts
    /\ ppc' = "called"
    /\ UNCHANGED <<svars, rvars>>

\* throw new Error("routesDir option is required")
PValidateFails ==
    /\ ppc = "called"
    /\ routesDirMissing(pluginOptions)
    /\ ppc' = "threw"
    /\ UNCHANGED <<pluginOptions, svars, rvars>>

\* scanDirectories rejects at fs.access, and so does the plugin call
PScanAccessFails ==
    /\ ppc = "called"
    /\ ~routesDirMissing(pluginOptions)
    /\ SAccessFails(PluginScanOptions)
    /\ ppc' = "threw"
    /\ UNCHANGED <<pluginOptions, rvars>>

\* scanDirectories rejects at fs.readdir of the root, and so does the plugin call
PScanReaddirFails ==
    /\ ppc = "called"
    /\ ~routesDirMissing(pluginOptions)
    /\ SReaddirFails(PluginScanOptions)
    /\ ppc' = "threw"
    /\ UNCHANGED <<pluginOptions, rvars>>

\* await scanDirectories(routesDir, scanOptions) starts
PScanStart ==
    /\ ppc = "called"
    /\ ~routesDirMissing(pluginOptions)
    /\ SStart(PluginScanOptions)
    /\ ppc' = "scan"
    /\ UNCHANGED <<pluginOptions, rvars>>

\* extractRouteInfo, the prefix, and the call of registerRoutes
PRegister ==
    /\ ppc = "scan"
    /\ spc = "done"
    /\ RCall(prefixRoutes(extractRouteInfo(routeFiles), pluginOptions.prefix),
             pluginOptions.globalHooks)
    /\ ppc' = "register"
    /\ UNCHANGED <<pluginOptions, svars>>

\* loadRouteModule of the descriptor in progress, reading the routes directory
PLoad(shape) ==
    RLoad(shape, existsSync(fs, jsFilePathOf(CurrentRoute.filePath)))

\* fastify.log.info of the registration summary
PLog ==
    /\ ppc = "register"
    /\ rpc = "done"
    /\ logs' = Append(logs, [level |-> "info", file |-> RootDir, count |-> Len(routes)])
    /\ ppc' = "done"
    /\ UNCHANGED <<pluginOptions, svars, routes, routesToRegister, ri, pendingHandlers,
                   loadCalls, server, globalHooks, callerHooks, module, rpc>>

Next ==
    \/ \E p \in PluginCandidates :
          (ppc = "setup" /\ SAddFile(p)) /\ UNCHANGED <<exceptP, rvars, pvars>>
    \/ \E o \in PluginOptionSets : PCall(o) /\ UNCHANGED exceptP
    \/ PValidateFails /\ UNCHANGED exceptP
    \/ PScanAccessFails /\ UNCHANGED exceptP
    \/ PScanReaddirFails /\ UNCHANGED exceptP
    \/ PScanStart /\ UNCHANGED exceptP
    \/ \E name \in PendingEntries : SVisit(name) /\ UNCHANGED <<exceptP, rvars, pvars>>
    \/ SReturn /\ UNCHANGED <<exceptP, rvars, pvars>>
    \/ SPrioritize /\ UNCHANGED <<exceptP, rvars, pvars>>
    \/ PRegister /\ UNCHANGED exceptP
    \/ RLoadFails /\ UNCHANGED <<exceptP, svars, pvars>>
    \/ \E shape \in PluginShapes :
          (rpc = "load" /\ PLoad(shape)) /\ UNCHANGED <<exceptP, svars, pvars>>
    \/ RRoute /\ UNCHANGED <<exceptP, svars, pvars>>
    \/ RRouteThrows /\ UNCHANGED <<exceptP, svars, pvars>>
    \/ PLog /\ UNCHANGED exceptP

PluginInit == PInit /\ SInit /\ RIdle /\ TIdle /\ HIdle /\ LIdle /\ MIdle

Spec == PluginInit /\ [][Next]_vars

-----------------------------------------------------------------------------
(* Properties of the plugin call, checked under Spec *)

\* the call was made with a configuration error: no routesDir, or a routes root
\* that does not exist or cannot be read
ConfigurationError ==
    /\ ppc # "setup"
    /\ routesDirMissing(pluginOptions) \/ rootState # "ok"

\* C8: if routesDir is missing, or the routes directory does not exist or is not
\* accessible, the plugin call fails with an error: it never gets past its
\* validation and the start of the scan, and at every point of the call no module
\* has been loaded and fastify.route has not been called.
C8_ConfigurationErrorAborts ==
    ConfigurationError =>
        /\ ppc \in {"called", "threw"}
        /\ spc \in {"setup", "threw"}
        /\ rpc = "idle"
        /\ loadCalls = <<>>
        /\ server = <<>>

\* C8 witness: a routes root that holds route files but cannot be read, and the
\* plugin call has failed
C8_Witness ==
    /\ ppc = "threw"
    /\ ~routesDirMissing(pluginOptions)
    /\ rootState = "unreadable"
    /\ <<N_g, N_p_js>> \in fs

-----------------------------------------------------------------------------
(* Properties of the registration records, checked under SpecHooks *)

\* the kept descriptor a route on the server was registered for
DescriptorOf(k) ==
    CHOOSE j \in DOMAIN routesToRegister : routesToRegister[j].filePath = server[k].from

\* the module of that descriptor as loadRouteModule returned it
ModuleAsLoaded(k) == loadCalls[DescriptorOf(k)].module[1]

\* the entry of methodHandlers route k of the server was built for: the routes of
\* one file are on the server in the order of the entries
EntryOf(k) ==
    LET extracted == extractMethodHandlers(ModuleAsLoaded(k))
    IN  extracted[Cardinality({h \in 1..k : server[h].from = server[k].from})]

\* C16: the registration record built for a route depends only on the route's own
\* descriptor, its own module and the globalHooks value the caller passed:
\* it is the record built from these alone, whatever was processed before it.
C16_RecordDependsOnOwnInputs ==
    \A k \in DOMAIN server :
        server[k] = routeOptionsOf(routesToRegister[DescriptorOf(k)], EntryOf(k),
                                   callerHooks, ModuleAsLoaded(k))

HookKeys == {"onRequest", "preHandler"}

\* C20: in every registration record the keys of the module's hooks export take
\* precedence over the same keys of globalHooks, and every globalHooks key the
\* module does not override is present with the value the caller supplied.
C20_ModuleHooksOverGlobalHooks ==
    \A k \in DOMAIN server :
        LET mod == ModuleAsLoaded(k)
            methodSchema == mod.schema[schemaKeyOf(EntryOf(k).key)]
        IN  /\ \A key \in HookKeys :
                  /\ mod.hooks[key] # <<>> => server[k][key] = mod.hooks[key]
                  /\ (mod.hooks[key] = <<>> /\ callerHooks[key] # <<>>)
                         => server[k][key] = callerHooks[key]
            /\ (mod.hooks.schema # <<>> /\ methodSchema = <<>>)
                   => server[k].schema = mod.hooks.schema
            /\ (mod.hooks.schema = <<>> /\ methodSchema = <<>> /\ callerHooks.schema # <<>>)
                   => server[k].schema = callerHooks.schema

SchemaFields == {"tags", "body", "response"}

\* the schema of a record built from the hooks objects alone
HooksSchema(k) == assignKey(callerHooks.schema, ModuleAsLoaded(k).hooks.schema)

\* C21: for each method token that has a handler, if the module's schema mapping
\* has an entry keyed by that same token, the fields of the entry are in the schema
\* of that handler's registration; a registration whose module has no entry for
\* its token gets no per-method schema fields (its schema is the one of the hooks).
C21_SchemaKeyedByMethodToken ==
    \A k \in DOMAIN server :
        LET perMethod == ModuleAsLoaded(k).schema[EntryOf(k).key]
        IN  /\ perMethod # <<>> =>
                  /\ server[k].schema # <<>>
                  /\ \A f \in SchemaFields :
                         perMethod[1][f] # <<>> => server[k].schema[1][f] = perMethod[1][f]
            /\ perMethod = <<>> => server[k].schema = HooksSchema(k)

\* the per-method schema object line 434 reads for the handler of record k
MethodSchemaOf(k) == ModuleAsLoaded(k).schema[schemaKeyOf(EntryOf(k).key)]

\* C22: when the per-method schema object carries a tags field, the registration's
\* schema has these tags at its top level, every other field of the per-method
\* schema is in the registration's schema unchanged, and the schema export of the
\* module stays as it was loaded.
C22_TagsLiftedSchemaExportKept ==
    /\ \A k \in DOMAIN server :
          (MethodSchemaOf(k) # <<>> /\ MethodSchemaOf(k)[1].tags # <<>>) =>
              /\ server[k].schema # <<>>
              /\ server[k].schema[1].tags = MethodSchemaOf(k)[1].tags
              /\ \A f \in SchemaFields \ {"tags"} :
                     MethodSchemaOf(k)[1][f] # <<>>
                         => server[k].schema[1][f] = MethodSchemaOf(k)[1][f]
    /\ rpc = "routes" => module.schema = loadCalls[ri].module[1].schema

\* C22 witness: a record with the tags and the body of its per-method schema,
\* built over a schema object of the module's hooks that has another body
C22_Witness ==
    \E k \in DOMAIN server :
        /\ MethodSchemaOf(k) = <<TaggedSchema>>
        /\ ModuleAsLoaded(k).hooks.schema # <<>>
        /\ ModuleAsLoaded(k).hooks.schema[1].body = <<"MB">>
        /\ server[k].schema[1].tags = <<<<"t">>>>
        /\ server[k].schema[1].body = <<"B">>
        /\ rpc = "routes"

\* C26: the method, url and handler of every route passed to fastify.route are
\* the ones derived from the file (its method token, its route path, its exported
\* handler): no key of globalHooks or of the module's hooks export replaces them.
C26_RouteKeysDerivedFromFile ==
    \A k \in DOMAIN server :
        /\ server[k].method = httpVerb(EntryOf(k).key)
        /\ server[k].url = routesToRegister[DescriptorOf(k)].routePath
        /\ server[k].handler = EntryOf(k).value

\* C14: the number reported in the final info log line of the plugin equals the
\* number of routes registered on the server during the plugin call.
C14_LoggedCountIsRegisteredCount ==
    ppc = "done" =>
        /\ logs[Len(logs)].level = "info"
        /\ logs[Len(logs)].count = Len(server)

-----------------------------------------------------------------------------
(* loadRouteModule *)

\* what loadRouteModule resolves to
NullModule == [kind |-> "null", file |-> <<>>]
ModuleFrom(f) == [kind |-> "module", file |-> f]

\* mutant: no catch clause
caughtBy_Nothing(region) == "none"

\* the catch clause an exception thrown in a region of loadRouteModule reaches:
\* the outer try holds the whole body, the inner try the primary import, the
\* fallback try the import of the .js version
caughtBy(region) ==
    CASE region = "outer" -> "outerCatch"
      [] region = "inner" -> "innerCatch"
      [] region = "fallback" -> "fallbackCatch"

\* mutant: the .js version is never tried
retriesJs_Never(actualFilePath, jsExists) == FALSE

\* the catch of the primary import: the .js version is tried as a fallback
retriesJs(actualFilePath, jsExists) ==
    /\ endsWith(actualFilePath, S_ts)
    /\ jsExists
    /\ jsFilePathOf(actualFilePath) # actualFilePath

\* the promise of loadRouteModule settles: resolved with v
resolveWith(v) == loadResult' = <<v>> /\ lpc' = "returned"

\* the promise of loadRouteModule rejects
rejects == loadResult' = <<[kind |-> "error", file |-> <<>>]>> /\ lpc' = "threw"

\* the body up to the primary import: the existence check, the declaration file
\* check and the choice of actualFilePath
LStart ==
    /\ lpc = "start"
    /\ IF ~fileExists
           THEN /\ existsCalls' = <<[file |-> loadPath, found |-> FALSE]>>
                /\ resolveWith(NullModule)
                /\ UNCHANGED actualPath
       ELSE IF isDeclarationFile(loadPath)
           THEN /\ existsCalls' = <<[file |-> loadPath, found |-> TRUE]>>
                /\ resolveWith(NullModule)
                /\ UNCHANGED actualPath
       ELSE /\ existsCalls' =
                   IF endsWith(loadPath, S_ts)
                       THEN <<[file |-> loadPath, found |-> TRUE],
                              [file |-> jsFilePathOf(loadPath), found |-> siblingExists]>>
                       ELSE <<[file |-> loadPath, found |-> TRUE]>>
            /\ actualPath' = actualFilePathOf(loadPath, siblingExists)
            /\ lpc' = "import"
            /\ UNCHANGED loadResult
    /\ UNCHANGED <<loadPath, fileExists, siblingExists, imports>>

\* an exception before the primary import, inside the outer try
LStartThrows ==
    /\ lpc = "start"
    /\ IF caughtBy("outer") = "outerCatch" THEN resolveWith(NullModule) ELSE rejects
    /\ UNCHANGED <<loadPath, fileExists, siblingExists, existsCalls, actualPath, imports>>

\* while an import is awaited the .js file beside a .ts file appears or vanishes
LSiblingChanges ==
    /\ lpc \in {"import", "fallback"}
    /\ endsWith(loadPath, S_ts)
    /\ siblingExists' = ~siblingExists
    /\ UNCHANGED <<loadPath, fileExists, existsCalls, actualPath, imports, loadResult, lpc>>

\* a file that can be imported now
importable(f) == f = loadPath \/ siblingExists

\* await import(fileUrl) yields the module
LImportOk ==
    /\ lpc = "import"
    /\ importable(actualPath)
    /\ imports' = Append(imports, [file |-> actualPath, ok |-> TRUE])
    /\ resolveWith(ModuleFrom(actualPath))
    /\ UNCHANGED <<loadPath, fileExists, siblingExists, existsCalls, actualPath>>

\* await import(fileUrl) throws: the catch of the inner try
LImportFails ==
    /\ lpc = "import"
    /\ imports' = Append(imports, [file |-> actualPath, ok |-> FALSE])
    /\ IF caughtBy("inner") # "innerCatch"
           THEN rejects /\ UNCHANGED existsCalls
       ELSE IF ~endsWith(actualPath, S_ts)
           THEN resolveWith(NullModule) /\ UNCHANGED existsCalls
       ELSE /\ existsCalls' = Append(existsCalls,
                   [file |-> jsFilePathOf(actualPath), found |-> siblingExists])
            /\ IF retriesJs(actualPath, siblingExists)
                   THEN lpc' = "fallback" /\ UNCHANGED loadResult
                   ELSE resolveWith(NullModule)
    /\ UNCHANGED <<loadPath, fileExists, siblingExists, actualPath>>

\* the import of the .js version yields the module
LFallbackOk ==
    /\ lpc = "fallback"
    /\ importable(jsFilePathOf(actualPath))
    /\ imports' = Append(imports, [file |-> jsFilePathOf(actualPath), ok |-> TRUE])
    /\ resolveWith(ModuleFrom(jsFilePathOf(actualPath)))
    /\ UNCHANGED <<loadPath, fileExists, siblingExists, existsCalls, actualPath>>

\* the import of the .js version throws: logged, then return null
LFallbackFails ==
    /\ lpc = "fallback"
    /\ imports' = Append(imports, [file |-> jsFilePathOf(actualPath), ok |-> FALSE])
    /\ IF caughtBy("fallback") = "fallbackCatch" THEN resolveWith(NullModule) ELSE rejects
    /\ UNCHANGED <<loadPath, fileExists, siblingExists, existsCalls, actualPath>>

\* the file paths loadRouteModule is called with
LoadPaths ==
    {fullPath(p) : p \in {<<N_g, N_p_js>>, <<N_g, N_p_ts>>, <<N_h2, N_p_mjs>>,
                          <<N_h2, N_p_ts>>, <<N_g, N_q_ts>>, <<N_g, N_q_dts>>,
                          <<N_users, N_id_js>>, <<N_p_ts>>}}

LInit ==
    /\ loadPath \in LoadPaths
    /\ fileExists \in BOOLEAN
    /\ siblingExists \in BOOLEAN
    /\ existsCalls = <<>>
    /\ actualPath = <<>>
    /\ imports = <<>>
    /\ loadResult = <<>>
    /\ lpc = "start"

LNext ==
    \/ LStart /\ UNCHANGED exceptL
    \/ LStartThrows /\ UNCHANGED exceptL
    \/ LSiblingChanges /\ UNCHANGED exceptL
    \/ LImportOk /\ UNCHANGED exceptL
    \/ LImportFails /\ UNCHANGED exceptL
    \/ LFallbackOk /\ UNCHANGED exceptL
    \/ LFallbackFails /\ UNCHANGED exceptL

LoadInit == LInit /\ TIdle /\ SIdle /\ HIdle /\ RIdle /\ PIdle /\ MIdle

SpecLoad == LoadInit /\ [][LNext]_vars

-----------------------------------------------------------------------------
(* Properties of loadRouteModule, checked under SpecLoad *)

\* C17: loadRouteModule never throws or rejects to its caller: for every file path
\* and every filesystem or import outcome it resolves to the loaded module or to
\* the null sentinel.
C17_LoadNeverThrows ==
    /\ lpc # "threw"
    /\ lpc = "returned" =>
          /\ Len(loadResult) = 1
          /\ loadResult[1].kind \in {"module", "null"}

\* C17 witness: the import of a .ts file and the import of its .js version both
\* failed, and the call resolved to null
C17_Witness ==
    /\ lpc = "returned"
    /\ loadResult = <<NullModule>>
    /\ Len(imports) = 2
    /\ ~imports[1].ok /\ ~imports[2].ok

\* the call was given an existing .ts file and found the .js file beside it
SiblingFound ==
    /\ Len(existsCalls) >= 2
    /\ existsCalls[1].found
    /\ endsWith(loadPath, S_ts)
    /\ existsCalls[2].found

\* C18: given an existing .ts path whose .js sibling exists, the file imported is
\* the .js sibling and the .ts file is not imported in that call; the .ts file is
\* imported only when no .js sibling exists.
C18_JsSiblingPreferred ==
    /\ (SiblingFound /\ lpc = "returned") =>
          /\ imports # <<>>
          /\ \A i \in DOMAIN imports : imports[i].file = jsFilePathOf(loadPath)
    /\ \A i \in DOMAIN imports :
          (endsWith(loadPath, S_ts) /\ imports[i].file = loadPath) => ~existsCalls[2].found

\* C18 witness: a .ts file with a .js sibling, and the module of the sibling returned
C18_Witness ==
    /\ lpc = "returned"
    /\ SiblingFound
    /\ imports = <<[file |-> jsFilePathOf(loadPath), ok |-> TRUE]>>
    /\ loadResult = <<ModuleFrom(jsFilePathOf(loadPath))>>

\* the primary import of the call failed
PrimaryFailed == lpc = "returned" /\ imports # <<>> /\ ~imports[1].ok

\* the load was retried once against the .js sibling, and its outcome returned
RetriedOnce ==
    /\ Len(imports) = 2
    /\ imports[2].file = jsFilePathOf(imports[1].file)
    /\ loadResult = <<IF imports[2].ok THEN ModuleFrom(imports[2].file) ELSE NullModule>>

\* the load was not retried and resolved to null
NotRetried == Len(imports) = 1 /\ loadResult = <<NullModule>>

\* C19 as stated: if the primary import fails and the attempted file was a .ts
\* file, the load is retried exactly once against the .js sibling; a failed import
\* of any other file is not retried.
C19_TsImportRetriedOnce ==
    PrimaryFailed =>
        IF endsWith(imports[1].file, S_ts) THEN RetriedOnce ELSE NotRetried

\* C19: if the primary import fails and the attempted file was a .ts file, the
\* load is retried once against the .js sibling when that file exists at that
\* moment; when it does not, and for a failed import of any other file, the call
\* resolves to null without a retry.
C19_TsImportRetriedWhenJsExists ==
    PrimaryFailed =>
        IF endsWith(imports[1].file, S_ts) /\ existsCalls[Len(existsCalls)].found
            THEN RetriedOnce
            ELSE NotRetried

\* C19 witness: the import of a .ts file failed, the .js file had appeared by
\* then, and its module was returned
C19_Witness ==
    /\ lpc = "returned"
    /\ imports = <<[file |-> loadPath, ok |-> FALSE],
                   [file |-> jsFilePathOf(loadPath), ok |-> TRUE]>>
    /\ endsWith(loadPath, S_ts)
    /\ loadResult = <<ModuleFrom(jsFilePathOf(loadPath))>>

-----------------------------------------------------------------------------
(* The performance monitor plugin *)

DefaultSlowThreshold == 1000
DefaultVerySlowThreshold == 3000

\* a ?? b on an optional value
orDefault(a, b) == IF a # <<>> THEN a[1] ELSE b

\* config: the options merged with the defaults
configOf(opts) ==
    [exclude |-> orDefault(opts.exclude, {}),
     slowThreshold |-> orDefault(opts.slowThreshold, DefaultSlowThreshold),
     verySlowThreshold |-> orDefault(opts.verySlowThreshold, DefaultVerySlowThreshold),
     enable |-> opts.enable # <<FALSE>>]

\* shouldExcludePath for patterns that are strings without a wildcard: exact match
shouldExcludePath(url, excludePaths) == \E pattern \in excludePaths : url = pattern

\* the console.log calls of the onResponse hook for one monitored request
responseLines(req, duration, status, config) ==
    (IF duration > config.slowThreshold
         THEN <<[kind |-> "slow", url |-> req.url, duration |-> duration]>> ELSE <<>>)
    \o (IF duration > config.verySlowThreshold
            THEN <<[kind |-> "very slow", url |-> req.url, duration |-> duration],
                   [kind |-> "route", url |-> req.url, duration |-> duration],
                   [kind |-> "status", url |-> req.url, duration |-> duration],
                   [kind |-> "duration", url |-> req.url, duration |-> duration]>>
            ELSE <<>>)
    \o (IF status >= 400
            THEN <<[kind |-> "error", url |-> req.url, duration |-> duration]>> ELSE <<>>)
    \o (IF duration < 1 /\ status = 200
            THEN <<[kind |-> "fast", url |-> req.url, duration |-> duration]>> ELSE <<>>)

MaxRequests == 2     \* requests the server receives

U_health == <<"/", "h", "e", "a", "l", "t", "h">>
U_p      == <<"/", "p">>

\* the options of the plugin: enable absent, true or false; no exclude list or /health
MonitorOptionSets ==
    {[enable |-> e, exclude |-> x, slowThreshold |-> <<>>, verySlowThreshold |-> <<>>] :
        e \in {<<>>, <<TRUE>>, <<FALSE>>}, x \in {<<>>, <<{U_health}>>}}

Durations == {0, 1500, 3500}
Statuses == {200, 404}

MInit ==
    /\ monitorConfig = configOf([enable |-> <<>>, exclude |-> <<>>,
                                 slowThreshold |-> <<>>, verySlowThreshold |-> <<>>])
    /\ installedHooks = {}
    /\ totalRequests = 0
    /\ monitoredRequests = 0
    /\ inflight = {}
    /\ console = <<>>
    /\ mpc = "setup"

\* fastify.register(performanceMonitor, opts): both hooks are added
MRegister(opts) ==
    /\ mpc = "setup"
    /\ monitorConfig' = configOf(opts)
    /\ installedHooks' = installedHooks \cup {"onRequest", "onResponse"}
    /\ mpc' = "registered"
    /\ UNCHANGED <<totalRequests, monitoredRequests, inflight, console>>

\* the callback given to fastify.ready
MReady ==
    /\ mpc = "registered"
    /\ console' = console \o <<[kind |-> "enabled", url |-> <<>>, duration |-> 0],
                               [kind |-> "thresholds", url |-> <<>>, duration |-> 0]>>
    /\ mpc' = "ready"
    /\ UNCHANGED <<monitorConfig, installedHooks, totalRequests, monitoredRequests, inflight>>

\* the onRequest hook on a request for url
MOnRequest(url) ==
    /\ mpc = "ready"
    /\ "onRequest" \in installedHooks
    /\ totalRequests < MaxRequests
    /\ totalRequests' = totalRequests + 1
    /\ inflight' = inflight \cup
           {[id |-> totalRequests + 1, url |-> url,
             shouldExclude |-> shouldExcludePath(url, monitorConfig.exclude)]}
    /\ monitoredRequests' =
           IF shouldExcludePath(url, monitorConfig.exclude)
               THEN monitoredRequests ELSE monitoredRequests + 1
    /\ UNCHANGED <<monitorConfig, installedHooks, console, mpc>>

\* the onResponse hook on the response to req, after duration ms, with a status
MOnResponse(req, duration, status) ==
    /\ mpc = "ready"
    /\ "onResponse" \in installedHooks
    /\ req \in inflight
    /\ inflight' = inflight \ {req}
    /\ console' = IF req.shouldExclude
                      THEN console
                      ELSE console \o responseLines(req, duration, status, monitorConfig)
    /\ UNCHANGED <<monitorConfig, installedHooks, totalRequests, monitoredRequests, mpc>>

MNext ==
    \/ \E o \in MonitorOptionSets : MRegister(o) /\ UNCHANGED exceptM
    \/ MReady /\ UNCHANGED exceptM
    \/ \E url \in {U_health, U_p} : MOnRequest(url) /\ UNCHANGED exceptM
    \/ \E req \in inflight, d \in Durations, st \in Statuses :
          MOnResponse(req, d, st) /\ UNCHANGED exceptM

MonitorInit == MInit /\ TIdle /\ SIdle /\ HIdle /\ RIdle /\ PIdle /\ LIdle

SpecMonitor == MonitorInit /\ [][MNext]_vars

-----------------------------------------------------------------------------
(* Properties of the performance monitor, checked under SpecMonitor *)

\* the kinds of console lines written for a request
TimingLines == {"slow", "very slow", "route", "status", "duration", "error", "fast"}

\* C15: registered with enable: false, the performance monitor installs no
\* onRequest/onResponse hook and never logs a timing line for any request.
C15_DisabledMonitorInstallsNothing ==
    (mpc # "setup" /\ ~monitorConfig.enable) =>
        /\ installedHooks = {}
        /\ \A i \in DOMAIN console : console[i].kind \notin TimingLines

-----------------------------------------------------------------------------
(* scanDirectories, loadRouteModule and registerRoutes called on declaration files *)

\* the files below the routes root: f.d.ts alone, or beside f.ts and f.js
DeclarationFileSets == {files \in SUBSET {<<N_f_dts>>, <<N_f_ts>>, <<N_f_js>>} : files # {}}

\* the paths loadRouteModule is called with: a declaration file and a .ts file
DeclarationLoadPaths == {fullPath(<<N_g, N_q_dts>>), fullPath(<<N_g, N_q_ts>>)}

\* the descriptor lists registerRoutes is called with
DeclarationRouteLists ==
    { <<routeInfo(<<N_g, N_q_dts>>)>>,
      <<routeInfo(<<N_g, N_q_dts>>), routeInfo(<<N_g, N_p_js>>)>>,
      <<routeInfo(<<N_g, N_q_ts>>), routeInfo(<<N_g, N_q_dts>>)>> }

DInit ==
    /\ rootState = "ok"
    /\ fs \in DeclarationFileSets
    /\ scanOptions = DEFAULT_SCAN_OPTIONS
    /\ stack = <<>>
    /\ allFiles = <<>>
    /\ routeFiles = <<>>
    /\ spc = "setup"
    /\ loadPath \in DeclarationLoadPaths
    /\ fileExists \in BOOLEAN
    /\ siblingExists = FALSE
    /\ existsCalls = <<>>
    /\ actualPath = <<>>
    /\ imports = <<>>
    /\ loadResult = <<>>
    /\ lpc = "start"
    /\ routes \in DeclarationRouteLists
    /\ routesToRegister = <<>>
    /\ ri = 0
    /\ pendingHandlers = <<>>
    /\ loadCalls = <<>>
    /\ server = <<>>
    /\ logs = <<>>
    /\ globalHooks = EmptyHooks
    /\ callerHooks = EmptyHooks
    /\ module = NoModule
    /\ rpc = "setup"

\* the three calls run side by side: each step is a step of one of them
DNext ==
    \/ \E o \in {DEFAULT_SCAN_OPTIONS, PluginScanOptions} :
          SStart(o) /\ UNCHANGED exceptS
    \/ \E name \in PendingEntries : SVisit(name) /\ UNCHANGED exceptS
    \/ SPrioritize /\ UNCHANGED exceptS
    \/ LStart /\ UNCHANGED exceptL
    \/ LImportOk /\ UNCHANGED exceptL
    \/ LImportFails /\ UNCHANGED exceptL
    \/ (rpc = "setup" /\ RCall(routes, EmptyHooks)) /\ UNCHANGED exceptR
    \/ RLoadFails /\ UNCHANGED exceptR
    \/ \E jsExists \in BOOLEAN : RLoad(PlainShape("get"), jsExists) /\ UNCHANGED exceptR
    \/ RRoute /\ UNCHANGED exceptR

DeclarationInit == DInit /\ TIdle /\ HIdle /\ PIdle /\ MIdle

SpecDeclaration == DeclarationInit /\ [][DNext]_vars

\* C23: no declaration-only (.d.ts) file takes part in routing: scanDirectories
\* never returns one, loadRouteModule never imports one and returns null for it,
\* and registerRoutes never registers a route sourced from one.
C23_NoDeclarationFileRouted ==
    /\ \A i \in DOMAIN routeFiles : ~endsWith(routeFiles[i], S_dts)
    /\ \A i \in DOMAIN imports : ~endsWith(imports[i].file, S_dts)
    /\ (endsWith(loadPath, S_dts) /\ lpc # "start") => loadResult = <<NullModule>>
    /\ \A k \in DOMAIN server : ~endsWith(server[k].from, S_dts)

\* C23 witness: the scan walked f.d.ts, the only file below the root, and returned
\* nothing; loadRouteModule returned null for an existing declaration file; and
\* registerRoutes finished a list with a declaration file, registering the other
\* file only
C23_Witness ==
    /\ fs = {<<N_f_dts>>}
    /\ spc = "done"
    /\ allFiles = <<fullPath(<<N_f_dts>>)>>
    /\ routeFiles = <<>>
    /\ endsWith(loadPath, S_dts)
    /\ fileExists
    /\ loadResult = <<NullModule>>
    /\ imports = <<>>
    /\ rpc = "done"
    /\ \E i \in DOMAIN routes : endsWith(routes[i].filePath, S_dts)
    /\ Len(server) = 1

-----------------------------------------------------------------------------
(* The order of a registerRoutes call, checked under SpecRegister *)

\* the place in the caller's list where route path rp occurs first
FirstOccurrence(rp) == Min(SharingPath(rp))

\* the loads settle one by one in the order of the kept descriptors, the load in
\* flight is the one of descriptor ri and every route on the server comes from an
\* earlier descriptor; the routes are on the server in the order of their
\* descriptors, and the kept descriptors in the order their route paths occur first
RegistrationInOrder ==
    /\ rpc = "load" => /\ Len(loadCalls) = ri - 1
                       /\ pendingHandlers = <<>>
                       /\ \A k \in DOMAIN server : DescriptorOf(k) < ri
    /\ rpc = "routes" => /\ Len(loadCalls) = ri
                         /\ \A k \in DOMAIN server : DescriptorOf(k) <= ri
    /\ \A j \in DOMAIN loadCalls : loadCalls[j].filePath = routesToRegister[j].filePath
    /\ \A k1, k2 \in DOMAIN server : k1 < k2 => DescriptorOf(k1) <= DescriptorOf(k2)
    /\ \A j1, j2 \in DOMAIN routesToRegister :
          j1 < j2 => FirstOccurrence(routesToRegister[j1].routePath)
                        < FirstOccurrence(routesToRegister[j2].routePath)

\* a step leaves the routes on the server in place, adds at most one at the end,
\* and moves the loop by at most one descriptor
ServerOnlyAppends ==
    /\ Len(server') \in {Len(server), Len(server) + 1}
    /\ SubSeq(server', 1, Len(server)) = server
    /\ ri' \in {ri, ri + 1}

\* C24: registration is strictly sequential and append-only: at most one module
\* load is in flight, all routes of one descriptor are registered before the load
\* of the next descriptor begins, the descriptors are processed in the order of
\* first occurrence of their route path, and the routes on the server only grow.
C24_SequentialAppendOnly == []RegistrationInOrder /\ [][ServerOnlyAppends]_vars

\* C24 witness: a call that finished with two routes for each of two descriptors,
\* the first of them a .js file that replaced the .ts file listed first
C24_Witness ==
    /\ rpc = "done"
    /\ Len(routes) = 3
    /\ endsWith(routes[1].filePath, S_ts)
    /\ endsWith(routes[3].filePath, S_js)
    /\ routes[1].routePath = routes[3].routePath
    /\ routes[2].routePath # routes[1].routePath
    /\ routesToRegister = <<routes[3], routes[2]>>
    /\ Len(server) = 4

-----------------------------------------------------------------------------
(* handleDynamicSegments on segments that mix captures with literal text *)

MaxParts == 3        \* parts of a segment: pieces of literal text and captures

\* literal text without brackets
Literals == {<<"p", "-">>, <<"-">>, <<"x">>}

\* names between brackets: plain ones and one that starts with three dots
S_dots == <<".", ".", ".">>
CaptureNames == {<<"a">>, <<"b">>, <<"i", "d">>, S_dots \o <<"s">>}

Parts == [t : {"lit"}, s : Literals] \cup [t : {"cap"}, s : CaptureNames]

PartLists == UNION {[1..n -> Parts] : n \in 1..MaxParts}

\* the segment a list of parts spells, and the fragment it stands for
RECURSIVE Spelled(_)
Spelled(parts) ==
    IF parts = <<>> THEN <<>>
    ELSE (IF Head(parts).t = "cap" THEN Capture(Head(parts).s) ELSE Head(parts).s)
            \o Spelled(Tail(parts))

RECURSIVE Substituted(_)
Substituted(parts) ==
    IF parts = <<>> THEN <<>>
    ELSE (IF Head(parts).t = "cap" THEN <<":">> \o Head(parts).s ELSE Head(parts).s)
            \o Substituted(Tail(parts))

MixedSegments == {Spelled(parts) : parts \in PartLists}

MixedDirs == {<<"p", "-">> \o Capture(<<"i", "d">>)}

GNext ==
    \/ \E seg \in MixedDirs : TAddDir(seg) /\ UNCHANGED exceptT
    \/ \E base \in MixedSegments : TChooseFile(base, S_js) /\ UNCHANGED exceptT
    \/ TExtract /\ UNCHANGED exceptT

SpecSegments == TranslateInit /\ [][GNext]_vars

\* a segment that is entirely a catch-all form
EntirelyCatchAll(segment) ==
    \E n \in CaptureNames :
        /\ startsWith(n, S_dots)
        /\ Len(n) > 3
        /\ segment \in {Capture(n), <<"[">> \o Capture(n) \o <<"]">>}

\* every segment with the fragment that has :name for each [name] of the segment
\* and the segment's literal text in place
SubstitutionPairs == {<<Spelled(parts), Substituted(parts)>> : parts \in PartLists}

SubstitutedIn(segment, fragment) == <<segment, fragment>> \in SubstitutionPairs

\* C25: in a segment that is not entirely a catch-all form every [name] is
\* replaced by :name and the literal text around the brackets stays in place
\* (prefix-[id] gives prefix-:id, [a]-[b] gives :a-:b); a segment without
\* brackets is passed through unchanged.
C25_CapturesSubstitutedInPlace ==
    tpc = "extracted" =>
        LET base == stripExtension(filename) IN
        /\ ~EntirelyCatchAll(base) => SubstitutedIn(base, fileFragment)
        /\ (~hasChar(base, "[") /\ ~hasChar(base, "]")) => fileFragment = base
        /\ \A i \in DOMAIN dirs :
              /\ SubstitutedIn(dirs[i], mapped[i])
              /\ (~hasChar(dirs[i], "[") /\ ~hasChar(dirs[i], "]")) => mapped[i] = dirs[i]

\* C25 witness: the file [a]-[b] under the directory p-[id] was translated
C25_Witness ==
    /\ tpc = "extracted"
    /\ dirs = << <<"p", "-">> \o Capture(<<"i", "d">>) >>
    /\ mapped = << <<"p", "-", ":", "i", "d">> >>
    /\ stripExtension(filename) = Capture(<<"a">>) \o <<"-">> \o Capture(<<"b">>)
    /\ fileFragment = <<":", "a", "-", ":", "b">>

-----------------------------------------------------------------------------
(* The (method, path) pairs of a registerRoutes call *)

\* the calls of fastify.route that threw
RejectedCalls == {i \in DOMAIN logs : logs[i].level = "error"}

\* the (HTTP method, route path) pairs passed to fastify.route: those of the routes
\* the server accepted and those of the routes it rejected
AcceptedPairs == {<<server[k].method, server[k].url>> : k \in DOMAIN server}
RejectedPairs ==
    {<<httpVerb(logs[i].method),
       routesToRegister[CHOOSE j \in DOMAIN routesToRegister :
                            routesToRegister[j].filePath = logs[i].file].routePath>> :
        i \in RejectedCalls}

\* neither globalHooks nor the hooks of a loaded module holds a method or url key
NoRouteKeyInHooks ==
    /\ callerHooks.method = <<>>
    /\ callerHooks.url = <<>>
    /\ \A j \in DOMAIN loadCalls :
          loadCalls[j].module # <<>> =>
              /\ loadCalls[j].module[1].hooks.method = <<>>
              /\ loadCalls[j].module[1].hooks.url = <<>>

\* C27: within one registerRoutes call, when neither globalHooks nor any module's
\* hooks carries a method or url key, no (HTTP method, route path) pair is passed
\* to fastify.route more than once, also when several files derive one route path.
C27_NoPairPassedTwice ==
    NoRouteKeyInHooks =>
        /\ Cardinality(AcceptedPairs) = Len(server)
        /\ Cardinality(RejectedPairs) = Cardinality(RejectedCalls)
        /\ AcceptedPairs \cap RejectedPairs = {}

\* C27 witness: a finished call on three files, two of them deriving the same
\* route path, with two routes accepted and one rejected
C27_Witness ==
    /\ rpc = "done"
    /\ Len(routes) = 3
    /\ \E i, j \in DOMAIN routes : i # j /\ routes[i].routePath = routes[j].routePath
    /\ Len(routesToRegister) = 2
    /\ Len(server) = 2
    /\ Cardinality(RejectedCalls) = 1

-----------------------------------------------------------------------------
(* loadRouteModule while nothing changes the files *)

\* the steps of a call during which no file appears or vanishes
LStableNext ==
    \/ LStart /\ UNCHANGED exceptL
    \/ LStartThrows /\ UNCHANGED exceptL
    \/ LImportOk /\ UNCHANGED exceptL
    \/ LImportFails /\ UNCHANGED exceptL

SpecLoadStable == LoadInit /\ [][LStableNext]_vars

\* C28: if the filesystem does not change during a loadRouteModule call, at most
\* one import is attempted in that call: the retry with the .js sibling after a
\* failed .ts import is never reached, because a .ts file is imported only when
\* its .js sibling does not exist.
C28_AtMostOneImport ==
    /\ Len(imports) <= 1
    /\ lpc # "fallback"
    /\ \A i \in DOMAIN imports : endsWith(imports[i].file, S_ts) => ~siblingExists

\* C28 witness: the import of a .ts file without .js sibling failed; the sibling
\* was looked for again, not found, and the call returned null after one import
C28_Witness ==
    /\ lpc = "returned"
    /\ loadResult = <<NullModule>>
    /\ endsWith(loadPath, S_ts)
    /\ imports = <<[file |-> loadPath, ok |-> FALSE]>>
    /\ Len(existsCalls) = 3
    /\ ~existsCalls[3].found

====
